---- MODULE Spec2Model ----
(***************************************************************************)
(* A model of the credential and validation core of backend-boilerplate:   *)
(* the hand-written validators, the users and auth controllers, the        *)
(* AuthGuard and the JWT module configuration.                             *)
(*                                                                         *)
(* Strings are sequences of one-character strings, so that trimming,       *)
(* lower-casing, regular-expression tests and Number() are computed.       *)
(* A JWT is a record [kind, header, payload, mac]; its mac is the pair     *)
(* (key, signed data), which models a collision-free HMAC.                 *)
(***************************************************************************)
EXTENDS Integers, Sequences, FiniteSets, TLC

VARIABLES
    phase,      \* "boot" | "running" | "failed": process bootstrap
    config,     \* JwtModule options built by useFactory: secret, expiresIn
    now,        \* the clock, in seconds
    ticks,      \* how many times the clock has advanced
    users,      \* the record store: the rows of the User table
    nextId,     \* the autoincrement id of the next row
    hashCount,  \* bcrypt.hash calls so far (each call draws a fresh salt)
    issued,     \* the logins that succeeded: the token returned, the claims it
                \* was signed for and the clock when it was signed
    last,       \* the last request handled: its input, calls made, outcome
    inflight,   \* the requests whose AuthGuard is running: for each, where
                \* canActivate stands, its header, its local token and result
    invocation, \* a call of a validator or a handler on its own: the function,
                \* its arguments and, once it has returned, its result
    deleting    \* the DELETE /users/:id requests in flight: for each, where the
                \* handler stands between its awaits, and how it ended

vars == <<phase, config, now, ticks, users, nextId, hashCount, issued, last, inflight,
         invocation, deleting>>

(***************************************************************************)
(* Bounds of the model.                                                    *)
(***************************************************************************)
MaxTicks == 2
MaxHashes == 2
MaxIssued == 1
MaxInflight == 2
MaxTotal == 5

(***************************************************************************)
(* Characters and strings.                                                 *)
(***************************************************************************)
UpperSeq == <<"A","B","C","D","E","F","G","H","I","J","K","L","M",
              "N","O","P","Q","R","S","T","U","V","W","X","Y","Z">>
LowerSeq == <<"a","b","c","d","e","f","g","h","i","j","k","l","m",
              "n","o","p","q","r","s","t","u","v","w","x","y","z">>
DigitSeq == <<"0","1","2","3","4","5","6","7","8","9">>

Range(s) == {s[i] : i \in DOMAIN s}
UpperChars == Range(UpperSeq)
LowerChars == Range(LowerSeq)
DigitChars == Range(DigitSeq)
SpaceChars == {" "}

IndexOf(c, s) == CHOOSE i \in DOMAIN s : s[i] = c

\* String.prototype.toLowerCase, one character
LowerChar(c) == IF c \in UpperChars THEN LowerSeq[IndexOf(c, UpperSeq)] ELSE c
\* String.prototype.toUpperCase, one character
UpperChar(c) == IF c \in LowerChars THEN UpperSeq[IndexOf(c, LowerSeq)] ELSE c

toLowerCase(s) == [i \in DOMAIN s |-> LowerChar(s[i])]
toUpperCase(s) == [i \in DOMAIN s |-> UpperChar(s[i])]

\* String.prototype.trim: drops the leading and trailing white space
RECURSIVE trimStart(_)
trimStart(s) == IF s # <<>> /\ Head(s) \in SpaceChars THEN trimStart(Tail(s)) ELSE s
RECURSIVE trimEnd(_)
trimEnd(s) ==
    IF s # <<>> /\ s[Len(s)] \in SpaceChars THEN trimEnd(SubSeq(s, 1, Len(s) - 1)) ELSE s
trim(s) == trimEnd(trimStart(s))

(***************************************************************************)
(* JavaScript values as the handlers see them.                             *)
(***************************************************************************)
Undefined == [t |-> "undefined"]
Null == [t |-> "null"]
Str(s) == [t |-> "string", v |-> s]

\* the operand of `!value`
Falsy(x) == \/ x.t \in {"undefined", "null"}
            \/ x.t = "string" /\ x.v = <<>>
            \/ x.t = "number" /\ x.v = 0
            \/ x.t = "boolean" /\ x.v = FALSE

\* a message is the sequence of the pieces it is concatenated from
Msg(text) == <<text>>
Valid == [isValid |-> TRUE]
Invalid(m) == [isValid |-> FALSE, message |-> m]

\* Array.prototype.join
RECURSIVE join(_, _)
join(parts, sep) ==
    IF parts = <<>> THEN <<>>
    ELSE IF Len(parts) = 1 THEN <<parts[1]>>
    ELSE <<parts[1], sep>> \o join(Tail(parts), sep)

(***************************************************************************)
(* The hand-written validators.                                            *)
(***************************************************************************)
\* [^\s@]+
NoSpaceNoAt(s) == s # <<>> /\ \A i \in DOMAIN s : s[i] \notin SpaceChars \cup {"@"}

\* /^[^\s@]+@[^\s@]+\.[^\s@]+$/ .test(email)
emailRegexTest(s) ==
    \E i, j \in DOMAIN s :
        /\ i < j
        /\ s[i] = "@"
        /\ s[j] = "."
        /\ NoSpaceNoAt(SubSeq(s, 1, i - 1))
        /\ NoSpaceNoAt(SubSeq(s, i + 1, j - 1))
        /\ NoSpaceNoAt(SubSeq(s, j + 1, Len(s)))

validateEmail(email) ==
    IF ~emailRegexTest(email) THEN Invalid(Msg("Invalid email format")) ELSE Valid

MinPasswordLength == 8

\* validatePasswordComplexity with the digit check made before the letter checks
validatePasswordComplexityDigitFirst(password) ==
    IF Len(password) < 8
    THEN Invalid(Msg("Password must be at least 8 characters long"))
    ELSE IF ~\E i \in DOMAIN password : password[i] \in DigitChars
    THEN Invalid(Msg("Password must contain at least one number"))
    ELSE IF ~\E i \in DOMAIN password : password[i] \in UpperChars
    THEN Invalid(Msg("Password must contain at least one uppercase letter"))
    ELSE IF ~\E i \in DOMAIN password : password[i] \in LowerChars
    THEN Invalid(Msg("Password must contain at least one lowercase letter"))
    ELSE Valid

validatePasswordComplexity(password) ==
    IF Len(password) < MinPasswordLength
    THEN Invalid(Msg("Password must be at least 8 characters long"))
    ELSE IF ~\E i \in DOMAIN password : password[i] \in UpperChars
    THEN Invalid(Msg("Password must contain at least one uppercase letter"))
    ELSE IF ~\E i \in DOMAIN password : password[i] \in LowerChars
    THEN Invalid(Msg("Password must contain at least one lowercase letter"))
    ELSE IF ~\E i \in DOMAIN password : password[i] \in DigitChars
    THEN Invalid(Msg("Password must contain at least one number"))
    ELSE Valid

validRoles == << <<"A","D","M","I","N">>,
                 <<"S","T","U","D","E","N","T">>,
                 <<"T","E","A","C","H","E","R">>,
                 <<"S","T","A","F","F">>,
                 <<"G","U","E","S","T">> >>

validateRole(role) ==
    IF toUpperCase(role) \notin Range(validRoles)
    THEN Invalid(Msg("Invalid role. Must be one of: ADMIN, STUDENT, TEACHER, STAFF, GUEST"))
    ELSE Valid

\* validateRequiredFields: fields is the object's entries, in insertion order
validateRequiredFields(fields) ==
    LET missingFields == SelectSeq(fields, LAMBDA e : Falsy(e[2]))
        names == [i \in DOMAIN missingFields |-> missingFields[i][1]]
    IN  IF Len(missingFields) > 0
        THEN Invalid(join(names, " and ")
                     \o <<" ">> \o <<IF Len(missingFields) = 1 THEN "is" ELSE "are">>
                     \o <<" required">>)
        ELSE Valid

(***************************************************************************)
(* Number(string) for decimal literals: white space is trimmed, the empty  *)
(* string is 0, an optional sign, digits, an optional fraction; anything   *)
(* else is NaN.  A number is [nan, neg, whole, frac]: frac tells whether   *)
(* the fractional part is non-zero.                                        *)
(***************************************************************************)
NaN == [nan |-> TRUE, neg |-> FALSE, whole |-> 0, frac |-> FALSE]
Num(neg, whole, frac) == [nan |-> FALSE, neg |-> neg, whole |-> whole, frac |-> frac]

AllDigits(s) == \A i \in DOMAIN s : s[i] \in DigitChars

RECURSIVE DigitsValue(_)
DigitsValue(s) ==
    IF s = <<>> THEN 0
    ELSE DigitsValue(SubSeq(s, 1, Len(s) - 1)) * 10 + (IndexOf(s[Len(s)], DigitSeq) - 1)

\* an unsigned decimal literal: digits, or digits "." digits with a digit on a side
UnsignedNumber(s) ==
    IF s # <<>> /\ AllDigits(s) THEN Num(FALSE, DigitsValue(s), FALSE)
    ELSE IF \E i \in DOMAIN s :
                /\ s[i] = "."
                /\ AllDigits(SubSeq(s, 1, i - 1))
                /\ AllDigits(SubSeq(s, i + 1, Len(s)))
                /\ Len(s) > 1
    THEN LET i == CHOOSE k \in DOMAIN s : s[k] = "."
         IN  Num(FALSE, DigitsValue(SubSeq(s, 1, i - 1)),
                 DigitsValue(SubSeq(s, i + 1, Len(s))) # 0)
    ELSE NaN

Number(str) ==
    LET s == trim(str)
    IN  IF s = <<>> THEN Num(FALSE, 0, FALSE)
        ELSE IF Head(s) = "-"
        THEN LET u == UnsignedNumber(Tail(s))
             IN  IF u.nan THEN NaN ELSE Num(TRUE, u.whole, u.frac)
        ELSE IF Head(s) = "+" THEN UnsignedNumber(Tail(s))
        ELSE UnsignedNumber(s)

isNaN(x) == x.nan
\* x < n and x > n for a natural number n
NumLess(x, n) == x.neg \/ x.whole < n
NumGreater(x, n) == ~x.neg /\ (x.whole > n \/ (x.whole = n /\ x.frac))
NumberIsInteger(x) == ~x.nan /\ ~x.frac

validateId(id) ==
    LET numericId == Number(id)
    IN  IF isNaN(numericId) \/ NumLess(numericId, 1)
        THEN Invalid(Msg("Invalid user ID format"))
        ELSE Valid

\* idSchema: z.coerce.number().int().positive()
idSchemaOk(id) ==
    LET n == Number(id)
    IN  ~isNaN(n) /\ NumberIsInteger(n) /\ ~NumLess(n, 1)

MaxLimit == 1000

\* validatePagination with the limit checked before the page
validatePaginationLimitFirst(page, limit) ==
    LET pageNum == Number(page)
        limitNum == Number(limit)
    IN  IF \/ isNaN(limitNum) \/ NumLess(limitNum, 1)
           \/ NumGreater(limitNum, 1000) \/ ~NumberIsInteger(limitNum)
        THEN Invalid(Msg("Limit must be an integer between 1 and 1000"))
        ELSE IF isNaN(pageNum) \/ NumLess(pageNum, 1) \/ ~NumberIsInteger(pageNum)
        THEN Invalid(Msg("Page must be a positive integer"))
        ELSE Valid

validatePagination(page, limit) ==
    LET pageNum == Number(page)
        limitNum == Number(limit)
    IN  IF isNaN(pageNum) \/ NumLess(pageNum, 1) \/ ~NumberIsInteger(pageNum)
        THEN Invalid(Msg("Page must be a positive integer"))
        ELSE IF \/ isNaN(limitNum) \/ NumLess(limitNum, 1)
                \/ NumGreater(limitNum, MaxLimit) \/ ~NumberIsInteger(limitNum)
        THEN Invalid(Msg("Limit must be an integer between 1 and 1000"))
        ELSE Valid

(***************************************************************************)
(* The Zod schemas (users.schemas.ts) and the validators built on them.    *)
(* A schema's parse yields its issues in the order of its checks; the      *)
(* validators report the message of the first issue.                       *)
(***************************************************************************)
\* the issue raised when a check fails
Issue(failed, text) == IF failed THEN <<Msg(text)>> ELSE <<>>

\* error.issues[0]?.message of a ZodError, or valid when parse returned
FirstIssue(issues) == IF issues = <<>> THEN Valid ELSE Invalid(issues[1])

\* passwordSchema: z.string().min(8).regex(/[A-Z]/).regex(/[a-z]/).regex(/[0-9]/)
passwordSchema(password) ==
    Issue(Len(password) < 8, "Password must be at least 8 characters long")
    \o Issue(~\E i \in DOMAIN password : password[i] \in UpperChars,
             "Password must contain at least one uppercase letter")
    \o Issue(~\E i \in DOMAIN password : password[i] \in LowerChars,
             "Password must contain at least one lowercase letter")
    \o Issue(~\E i \in DOMAIN password : password[i] \in DigitChars,
             "Password must contain at least one number")

\* pageSchema: z.coerce.number().int().positive(), one message for all
pageSchema(page) ==
    LET n == Number(page)
    IN  IF isNaN(n) THEN Issue(TRUE, "Page must be a positive integer")
        ELSE Issue(~NumberIsInteger(n), "Page must be a positive integer")
             \o Issue(~NumGreater(n, 0), "Page must be a positive integer")

\* limitSchema: z.coerce.number().int().min(1).max(1000), one message for all
limitSchema(limit) ==
    LET n == Number(limit)
    IN  IF isNaN(n) THEN Issue(TRUE, "Limit must be an integer between 1 and 1000")
        ELSE Issue(~NumberIsInteger(n), "Limit must be an integer between 1 and 1000")
             \o Issue(NumLess(n, 1), "Limit must be an integer between 1 and 1000")
             \o Issue(NumGreater(n, MaxLimit), "Limit must be an integer between 1 and 1000")

\* paginationSchema: z.object({ page: pageSchema, limit: limitSchema })
paginationSchema(page, limit) == pageSchema(page) \o limitSchema(limit)

\* validatePagination built on paginationSchema
validatePaginationZod(page, limit) == FirstIssue(paginationSchema(page, limit))

\* createRequiredFieldsSchema(fields): for each key in Object.keys order,
\* z.any().refine(val => val !== undefined && val !== null && val !== '')
\* with the message `${key} is required`
RECURSIVE createRequiredFieldsSchema(_)
createRequiredFieldsSchema(fields) ==
    IF fields = <<>> THEN <<>>
    ELSE LET key == fields[1][1]
             val == fields[1][2]
             refused == \/ val.t = "undefined"
                        \/ val.t = "null"
                        \/ (val.t = "string" /\ val.v = <<>>)
         IN  (IF refused THEN << <<key, " ", "is", " required">> >> ELSE <<>>)
             \o createRequiredFieldsSchema(Tail(fields))

\* validateRequiredFields built on createRequiredFieldsSchema
validateRequiredFieldsZod(fields) == FirstIssue(createRequiredFieldsSchema(fields))

\* idSchema: z.coerce.number({ message }).int({ message }).positive({ message }),
\* each check with a message of its own
idSchema(id) ==
    LET n == Number(id)
    IN  IF isNaN(n) THEN Issue(TRUE, "Invalid user ID format")
        ELSE Issue(~NumberIsInteger(n), "ID must be an integer")
             \o Issue(~NumGreater(n, 0), "ID must be a positive number")

\* validateId built on idSchema
validateIdZod(id) == FirstIssue(idSchema(id))

\* Zod's e-mail pattern:
\* /^(?!\.)(?!.*\.\.)([A-Z0-9_'+\-\.]*)[A-Z0-9_+-]@([A-Z0-9][A-Z0-9\-]*\.)+[A-Z]{2,}$/i
AlnumChars == UpperChars \cup LowerChars \cup DigitChars
\* ([A-Z0-9][A-Z0-9\-]*\.)+[A-Z]{2,}
zodDomainTest(d) ==
    LET dots == {k \in DOMAIN d : d[k] = "."}
    IN  /\ dots # {}
        /\ LET lastDot == CHOOSE k \in dots : \A j \in dots : j <= k
           IN  /\ d[1] \in AlnumChars
               /\ \A k \in 1..lastDot : d[k] \in AlnumChars \cup {"-", "."}
               /\ \A k \in dots \ {lastDot} : d[k + 1] \in AlnumChars
               /\ Len(d) - lastDot >= 2
               /\ \A k \in (lastDot + 1)..Len(d) : d[k] \in UpperChars \cup LowerChars
zodEmailTest(s) ==
    /\ s # <<>>
    /\ s[1] # "."
    /\ ~\E k \in 1..(Len(s) - 1) : s[k] = "." /\ s[k + 1] = "."
    /\ \E i \in DOMAIN s :
          /\ s[i] = "@"
          /\ i > 1
          /\ \A k \in 1..(i - 1) : s[k] \in AlnumChars \cup {"_", "'", "+", "-", "."}
          /\ s[i - 1] \in AlnumChars \cup {"_", "+", "-"}
          /\ i < Len(s)
          /\ zodDomainTest(SubSeq(s, i + 1, Len(s)))

\* emailSchema: z.string().email({ message }).trim().toLowerCase(); the checks
\* run in this order, so the pattern is tested on the string as given
emailSchema(email) == Issue(~zodEmailTest(email), "Invalid email format")
\* the value emailSchema.parse returns
emailSchemaOutput(email) == toLowerCase(trim(email))

\* validateEmail built on emailSchema
validateEmailZod(email) == FirstIssue(emailSchema(email))

\* roleSchema: z.enum(['ADMIN', 'STUDENT', 'TEACHER', 'STAFF', 'GUEST'], { message })
roleSchema(role) ==
    Issue(role \notin Range(validRoles),
          "Invalid role. Must be one of: ADMIN, STUDENT, TEACHER, STAFF, GUEST")

\* validateRole built on roleSchema: roleSchema.parse(role.toUpperCase())
validateRoleZod(role) == FirstIssue(roleSchema(toUpperCase(role)))

\* userRegistrationSchema, for a body whose email and password are strings and
\* whose name is absent: the issues of email, password and role, in this order
userRegistrationSchema(body) ==
    emailSchema(body.email.v)
    \o passwordSchema(body.password.v)
    \o (IF body.role.t = "undefined" THEN <<>> ELSE roleSchema(body.role.v))

\* validatePasswordComplexity built on passwordSchema
validatePasswordComplexityZod(password) == FirstIssue(passwordSchema(password))

(***************************************************************************)
(* bcryptjs.  A hash keeps its cost and salt in the clear; its digest is   *)
(* determined by (salt, cost, plaintext) and reveals none of them.         *)
(***************************************************************************)
SaltRounds == 10

BcryptDigest(salt, rounds, plain) == [s |-> salt, r |-> rounds, p |-> plain]
bcryptHash(plain, rounds, salt) ==
    [rounds |-> rounds, salt |-> salt, digest |-> BcryptDigest(salt, rounds, plain)]
bcryptCompare(plain, hash) == hash.digest = BcryptDigest(hash.salt, hash.rounds, plain)

(***************************************************************************)
(* Process bootstrap: ConfigModule validates the environment (envSchema),  *)
(* then JwtModule's useFactory builds the signing options.                 *)
(***************************************************************************)
MinSecretLength == 32

Chars(c, n) == [i \in 1..n |-> c]
DefaultExpiresIn == <<"7", "d">>
FallbackSecret == Chars("y", 51)

\* z.string().min(n)
ZStringMin(x, n) == x.t = "string" /\ Len(x.v) >= n
\* z.string().optional()
ZStringOptional(x) == x.t \in {"string", "undefined"}

\* envSchema with JWT_SECRET: z.string(), the minimum length left out
envSchemaOkNoMinimum(e) ==
    /\ ZStringMin(e.DATABASE_URL, 1)
    /\ ZStringMin(e.JWT_SECRET, 0)
    /\ ZStringOptional(e.JWT_EXPIRES_IN)

envSchemaOk(e) ==
    /\ ZStringMin(e.DATABASE_URL, 1)
    /\ ZStringMin(e.JWT_SECRET, MinSecretLength)
    /\ ZStringOptional(e.JWT_EXPIRES_IN)

\* validate(config): the parsed data, with the schema's defaults applied
validate(e) ==
    [DATABASE_URL |-> e.DATABASE_URL,
     JWT_SECRET |-> e.JWT_SECRET,
     JWT_EXPIRES_IN |-> IF e.JWT_EXPIRES_IN.t = "undefined"
                        THEN Str(DefaultExpiresIn) ELSE e.JWT_EXPIRES_IN]

\* JwtModule.registerAsync useFactory
useFactory(cfg) ==
    [secret |-> IF Falsy(cfg.JWT_SECRET) THEN FallbackSecret ELSE cfg.JWT_SECRET.v,
     expiresIn |-> IF Falsy(cfg.JWT_EXPIRES_IN) THEN DefaultExpiresIn
                   ELSE cfg.JWT_EXPIRES_IN.v]

(***************************************************************************)
(* jsonwebtoken, as @nestjs/jwt calls it with a symmetric secret.          *)
(***************************************************************************)
\* the `ms` time span of "<digits><unit>", in seconds
UnitSeconds(u) == CASE u = "s" -> 1 [] u = "m" -> 60 [] u = "h" -> 3600 [] u = "d" -> 86400
timespan(str) == DigitsValue(SubSeq(str, 1, Len(str) - 1)) * UnitSeconds(str[Len(str)])

JwtHeader == [alg |-> "HS256", typ |-> "JWT"]
Hmac(key, header, payload) == [key |-> key, header |-> header, payload |-> payload]

\* jwtService.sign(payload): iat and exp are added from the clock and expiresIn
jwtSign(payload, secret, expiresIn, t) ==
    LET full == [sub |-> payload.sub, email |-> payload.email, role |-> payload.role,
                 iat |-> t, exp |-> t + timespan(expiresIn)]
    IN  [kind |-> "jwt", header |-> JwtHeader, payload |-> full,
         mac |-> Hmac(secret, JwtHeader, full)]

\* whether the clock has reached the token's exp claim (jsonwebtoken rejects
\* a token when clockTimestamp >= payload.exp)
jwtExpired(payload, t) == t >= payload.exp

\* verify with ignoreExpiration: the exp claim is not looked at
jwtVerifyIgnoreExpiration(token, secret, t) ==
    IF Len(token) # 1 \/ token[1].kind # "jwt"
    THEN [ok |-> FALSE, error |-> "jwt malformed"]
    ELSE LET jwt == token[1]
         IN  IF jwt.header.alg \notin {"HS256", "HS384", "HS512"}
             THEN [ok |-> FALSE, error |-> "invalid algorithm"]
             ELSE IF jwt.mac # Hmac(secret, jwt.header, jwt.payload)
             THEN [ok |-> FALSE, error |-> "invalid signature"]
             ELSE [ok |-> TRUE, payload |-> jwt.payload]

\* jwtService.verify / verifyAsync(token): the decoded payload or the error.
\* A token string is a sequence of pieces; a well-formed JWT is one piece.
jwtVerify(token, secret, t) ==
    IF Len(token) # 1 \/ token[1].kind # "jwt"
    THEN [ok |-> FALSE, error |-> "jwt malformed"]
    ELSE LET jwt == token[1]
         IN  IF jwt.header.alg \notin {"HS256", "HS384", "HS512"}
             THEN [ok |-> FALSE, error |-> "invalid algorithm"]
             ELSE IF jwt.mac # Hmac(secret, jwt.header, jwt.payload)
             THEN [ok |-> FALSE, error |-> "invalid signature"]
             ELSE IF jwtExpired(jwt.payload, t)
             THEN [ok |-> FALSE, error |-> "jwt expired"]
             ELSE [ok |-> TRUE, payload |-> jwt.payload]

(***************************************************************************)
(* AuthGuard.                                                              *)
(***************************************************************************)
BearerPrefix == [kind |-> "text", text |-> "Bearer "]

\* authHeader.startsWith('Bearer ')
startsWithBearer(h) == h # <<>> /\ h[1] = BearerPrefix
\* authHeader.slice(7): the prefix piece is the seven characters of 'Bearer '
slice7(h) == Tail(h)

\* the header taken whole as the token, prefix included
extractTokenNoStrip(authHeader) == authHeader

\* const token = authHeader.startsWith('Bearer ') ? authHeader.slice(7) : authHeader
extractToken(authHeader) ==
    IF startsWithBearer(authHeader) THEN slice7(authHeader) ELSE authHeader

GuardThrow(message, calls) ==
    [activated |-> FALSE, exception |-> "UnauthorizedException", message |-> Msg(message),
     user |-> <<>>, verifyCalls |-> calls]

\* canActivate with the payload decoded but not verified (jwt.decode in place
\* of verifyAsync)
canActivateDecodeOnly(request, t) ==
    LET authHeader == request.headers.authorization
    IN  IF Falsy(authHeader)
        THEN GuardThrow("Authorization header is missing", <<>>)
        ELSE LET token == extractToken(authHeader.v)
             IN  IF token = <<>>
                 THEN GuardThrow("Token is missing", <<>>)
                 ELSE IF Len(token) = 1 /\ token[1].kind = "jwt"
                 THEN [activated |-> TRUE, exception |-> "", message |-> <<>>,
                       user |-> <<token[1].payload>>, verifyCalls |-> <<token>>]
                 ELSE GuardThrow("Invalid or expired token", <<token>>)

\* canActivate with the tokens that login handed out remembered as valid
canActivateCached(request, t) ==
    LET authHeader == request.headers.authorization
    IN  IF Falsy(authHeader)
        THEN GuardThrow("Authorization header is missing", <<>>)
        ELSE LET token == extractToken(authHeader.v)
             IN  IF token = <<>>
                 THEN GuardThrow("Token is missing", <<>>)
                 ELSE IF \E i \in issued : token = <<i.token>>
                 THEN [activated |-> TRUE, exception |-> "", message |-> <<>>,
                       user |-> <<token[1].payload>>, verifyCalls |-> <<>>]
                 ELSE LET r == jwtVerify(token, config.secret, t)
                      IN  IF r.ok
                          THEN [activated |-> TRUE, exception |-> "", message |-> <<>>,
                                user |-> <<r.payload>>, verifyCalls |-> <<token>>]
                          ELSE GuardThrow("Invalid or expired token", <<token>>)

\* canActivate with a missing header read as an empty one (authHeader ?? '')
canActivateHeaderDefaulted(request, t) ==
    LET authHeader == request.headers.authorization
        header == IF authHeader.t = "string" THEN authHeader.v ELSE <<>>
        token == extractToken(header)
    IN  IF token = <<>>
        THEN GuardThrow("Token is missing", <<>>)
        ELSE LET r == jwtVerify(token, config.secret, t)
             IN  IF r.ok
                 THEN [activated |-> TRUE, exception |-> "", message |-> <<>>,
                       user |-> <<r.payload>>, verifyCalls |-> <<token>>]
                 ELSE GuardThrow("Invalid or expired token", <<token>>)

\* canActivate with the verification error passed on as the message
canActivateLeaksReason(request, t) ==
    LET authHeader == request.headers.authorization
    IN  IF Falsy(authHeader)
        THEN GuardThrow("Authorization header is missing", <<>>)
        ELSE LET token == extractToken(authHeader.v)
             IN  IF token = <<>>
                 THEN GuardThrow("Token is missing", <<>>)
                 ELSE LET r == jwtVerify(token, config.secret, t)
                      IN  IF r.ok
                          THEN [activated |-> TRUE, exception |-> "", message |-> <<>>,
                                user |-> <<r.payload>>, verifyCalls |-> <<token>>]
                          ELSE GuardThrow(r.error, <<token>>)

\* canActivate with a token that is no JWT reported as missing
canActivateMalformedMissing(request, t) ==
    LET authHeader == request.headers.authorization
    IN  IF Falsy(authHeader)
        THEN GuardThrow("Authorization header is missing", <<>>)
        ELSE LET token == extractToken(authHeader.v)
             IN  IF token = <<>> \/ Len(token) # 1 \/ token[1].kind # "jwt"
                 THEN GuardThrow("Token is missing", <<>>)
                 ELSE LET r == jwtVerify(token, config.secret, t)
                      IN  IF r.ok
                          THEN [activated |-> TRUE, exception |-> "", message |-> <<>>,
                                user |-> <<r.payload>>, verifyCalls |-> <<token>>]
                          ELSE GuardThrow("Invalid or expired token", <<token>>)

\* canActivate with a role check after the verification: only ADMIN passes
canActivateAdminOnly(request, t) ==
    LET authHeader == request.headers.authorization
    IN  IF Falsy(authHeader)
        THEN GuardThrow("Authorization header is missing", <<>>)
        ELSE LET token == extractToken(authHeader.v)
             IN  IF token = <<>>
                 THEN GuardThrow("Token is missing", <<>>)
                 ELSE LET r == jwtVerify(token, config.secret, t)
                      IN  IF r.ok /\ r.payload.role = <<"A","D","M","I","N">>
                          THEN [activated |-> TRUE, exception |-> "", message |-> <<>>,
                                user |-> <<r.payload>>, verifyCalls |-> <<token>>]
                          ELSE GuardThrow("Invalid or expired token", <<token>>)

\* AuthGuard.canActivate(context) at clock t: whether it returned true, what it
\* threw, request.user afterwards, and the tokens verifyAsync was called with
canActivate(request, t) ==
    LET authHeader == request.headers.authorization
    IN  IF Falsy(authHeader)
        THEN GuardThrow("Authorization header is missing", <<>>)
        ELSE LET token == extractToken(authHeader.v)
             IN  IF token = <<>>
                 THEN GuardThrow("Token is missing", <<>>)
                 ELSE LET r == jwtVerify(token, config.secret, t)
                      IN  IF r.ok
                          THEN [activated |-> TRUE, exception |-> "", message |-> <<>>,
                                user |-> <<r.payload>>, verifyCalls |-> <<token>>]
                          ELSE GuardThrow("Invalid or expired token", <<token>>)

(***************************************************************************)
(* The record store (Prisma's user model) and UsersService.                *)
(***************************************************************************)
DefaultRole == <<"G","U","E","S","T">>

\* prisma.user.findUnique({ where: { email } }): the row, or none
findOneByEmail(store, email) ==
    IF \E u \in store : u.email = email
    THEN <<CHOOSE u \in store : u.email = email>> ELSE <<>>

\* prisma.user.findUnique({ where: { id } }) for an integer id
findOneById(store, id) ==
    IF \E u \in store : u.id = id
    THEN <<CHOOSE u \in store : u.id = id>> ELSE <<>>

\* the row passed on whole, password included
withPassword(u) == u

\* const { password, ...result } = user
withoutPassword(u) == [f \in DOMAIN u \ {"password"} |-> u[f]]

\* UsersService.create with the hash hashed a second time before it is stored
usersServiceCreateRehash(store, data, id, salt) ==
    LET once == bcryptHash(data.password.v, SaltRounds, salt)
        hashedPassword == bcryptHash(once, SaltRounds, salt + 1)
        row == [id |-> id,
                email |-> data.email,
                name |-> data.name,
                password |-> hashedPassword,
                role |-> IF Falsy(data.role) THEN DefaultRole ELSE toUpperCase(data.role.v)]
    IN  [row |-> row,
         hashCalls |-> << <<data.password.v, SaltRounds>>, <<once, SaltRounds>> >>,
         conflict |-> \E u \in store : u.email = data.email]

\* UsersService.create(data): the hash, the row handed to prisma.user.create,
\* and whether the unique index on email rejects it (error code P2002)
usersServiceCreate(store, data, id, salt) ==
    LET hashedPassword == bcryptHash(data.password.v, SaltRounds, salt)
        row == [id |-> id,
                email |-> data.email,
                name |-> data.name,
                password |-> hashedPassword,
                role |-> IF Falsy(data.role) THEN DefaultRole ELSE toUpperCase(data.role.v)]
    IN  [row |-> row,
         hashCalls |-> << <<data.password.v, SaltRounds>> >>,
         conflict |-> \E u \in store : u.email = data.email]

\* validateUser without the password comparison
validateUserNoCompare(store, email, pass) ==
    LET user == findOneByEmail(store, email)
    IN  IF user # <<>> THEN <<withoutPassword(user[1])>> ELSE <<>>

\* UsersService.validateUser(email, pass): the row without its password, or null
validateUser(store, email, pass) ==
    LET user == findOneByEmail(store, email)
    IN  IF user # <<>> /\ bcryptCompare(pass, user[1].password)
        THEN <<withoutPassword(user[1])>>
        ELSE <<>>

\* the rows in id order
RECURSIVE rowsById(_)
rowsById(store) ==
    IF store = {} THEN <<>>
    ELSE LET first == CHOOSE u \in store : \A w \in store : u.id <= w.id
         IN  <<first>> \o rowsById(store \ {first})

\* Math.ceil(a / b) for naturals, b > 0
ceilDiv(a, b) == (a + b - 1) \div b

\* UsersService.findbyPage(page, limit)
usersServiceFindbyPage(store, page, limit) ==
    LET skip == (page - 1) * limit
        all == rowsById(store)
        total == Cardinality(store)
        data == [i \in 1..(IF total - skip < 0 THEN 0
                           ELSE IF total - skip < limit THEN total - skip ELSE limit)
                    |-> [id |-> all[skip + i].id, email |-> all[skip + i].email,
                         name |-> all[skip + i].name]]
    IN  [data |-> data,
         pagination |-> [page |-> page, limit |-> limit, total |-> total,
                         pages |-> ceilDiv(total, limit)],
         storeCalls |-> << [fn |-> "findMany", skip |-> skip, take |-> limit],
                           [fn |-> "count"] >>]

(***************************************************************************)
(* AuthService.                                                            *)
(***************************************************************************)
\* AuthService.login(email, password) at clock t
authServiceLogin(store, email, password, t) ==
    LET user == validateUser(store, email, password)
    IN  IF user = <<>>
        THEN [exception |-> "UnauthorizedException",
              message |-> Msg("Invalid email or password"),
              body |-> <<>>, signCalls |-> <<>>, tokens |-> {}]
        ELSE LET payload == [sub |-> user[1].id, email |-> user[1].email,
                             role |-> user[1].role]
                 token == jwtSign(payload, config.secret, config.expiresIn, t)
             IN  [exception |-> "", message |-> <<>>,
                  body |-> <<[access_token |-> token, token_type |-> "Bearer",
                              expires_in |-> DefaultExpiresIn,
                              user |-> [id |-> user[1].id, email |-> user[1].email,
                                        name |-> user[1].name, role |-> user[1].role]]>>,
                  signCalls |-> <<payload>>, tokens |-> {token}]

\* AuthService.verifyToken(token) at clock t
authServiceVerifyToken(token, t) ==
    LET r == jwtVerify(token, config.secret, t)
    IN  IF r.ok THEN [exception |-> "", message |-> <<>>, body |-> <<r.payload>>]
        ELSE [exception |-> "UnauthorizedException",
              message |-> Msg("Invalid or expired token"), body |-> <<>>]

(***************************************************************************)
(* The controllers' handlers.  Each yields what the handler threw or       *)
(* returned, the calls it made, and the store and tokens afterwards.       *)
(***************************************************************************)
Threw(exception, message, store, storeCalls, hashCalls) ==
    [exception |-> exception, message |-> message, body |-> <<>>,
     storeCalls |-> storeCalls, hashCalls |-> hashCalls, signCalls |-> <<>>,
     store |-> store, tokens |-> {}]

Returned(body, store, storeCalls, hashCalls, signCalls, tokens) ==
    [exception |-> "", message |-> <<>>, body |-> <<body>>,
     storeCalls |-> storeCalls, hashCalls |-> hashCalls, signCalls |-> signCalls,
     store |-> store, tokens |-> tokens]

BadRequest(message, store) == Threw("BadRequestException", message, store, <<>>, <<>>)

\* UsersController.create with the duplicate email thrown as a ConflictException
usersControllerCreateConflict(store, body, id, salt) ==
    LET requiredFieldsValidation ==
            validateRequiredFields(<< <<"email", body.email>>, <<"password", body.password>> >>)
    IN  IF ~requiredFieldsValidation.isValid
        THEN BadRequest(requiredFieldsValidation.message, store)
        ELSE
    LET email == toLowerCase(trim(body.email.v))
        emailValidation == validateEmail(email)
    IN  IF ~emailValidation.isValid
        THEN BadRequest(emailValidation.message, store)
        ELSE
    LET passwordValidation == validatePasswordComplexity(body.password.v)
    IN  IF ~passwordValidation.isValid
        THEN BadRequest(passwordValidation.message, store)
        ELSE IF ~Falsy(body.role) /\ ~validateRole(body.role.v).isValid
        THEN BadRequest(validateRole(body.role.v).message, store)
        ELSE
    LET created == usersServiceCreate(store, [body EXCEPT !.email = email], id, salt)
        call == [fn |-> "create", data |-> created.row]
    IN  IF created.conflict
        THEN Threw("ConflictException", Msg("Email already in use"), store,
                   <<call>>, created.hashCalls)
        ELSE Returned(withoutPassword(created.row), store \cup {created.row},
                      <<call>>, created.hashCalls, <<>>, {})

\* UsersController.create with the role compared as given, without toUpperCase
usersControllerCreateCaseSensitive(store, body, id, salt) ==
    LET requiredFieldsValidation ==
            validateRequiredFields(<< <<"email", body.email>>, <<"password", body.password>> >>)
    IN  IF ~requiredFieldsValidation.isValid
        THEN BadRequest(requiredFieldsValidation.message, store)
        ELSE
    LET email == toLowerCase(trim(body.email.v))
        emailValidation == validateEmail(email)
    IN  IF ~emailValidation.isValid
        THEN BadRequest(emailValidation.message, store)
        ELSE
    LET passwordValidation == validatePasswordComplexity(body.password.v)
    IN  IF ~passwordValidation.isValid
        THEN BadRequest(passwordValidation.message, store)
        ELSE IF ~Falsy(body.role) /\ body.role.v \notin Range(validRoles)
        THEN BadRequest(Msg("Invalid role. Must be one of: ADMIN, STUDENT, TEACHER, STAFF, GUEST"),
                        store)
        ELSE
    LET created == usersServiceCreate(store, [body EXCEPT !.email = email], id, salt)
        call == [fn |-> "create", data |-> created.row]
    IN  IF created.conflict
        THEN Threw("BadRequestException", Msg("Email already in use"), store,
                   <<call>>, created.hashCalls)
        ELSE Returned(withoutPassword(created.row), store \cup {created.row},
                      <<call>>, created.hashCalls, <<>>, {})

\* UsersController.create with the email stored as it was sent
usersControllerCreateNoNormalize(store, body, id, salt) ==
    LET requiredFieldsValidation ==
            validateRequiredFields(<< <<"email", body.email>>, <<"password", body.password>> >>)
    IN  IF ~requiredFieldsValidation.isValid
        THEN BadRequest(requiredFieldsValidation.message, store)
        ELSE
    LET email == toLowerCase(trim(body.email.v))
        emailValidation == validateEmail(email)
    IN  IF ~emailValidation.isValid
        THEN BadRequest(emailValidation.message, store)
        ELSE
    LET passwordValidation == validatePasswordComplexity(body.password.v)
    IN  IF ~passwordValidation.isValid
        THEN BadRequest(passwordValidation.message, store)
        ELSE IF ~Falsy(body.role) /\ ~validateRole(body.role.v).isValid
        THEN BadRequest(validateRole(body.role.v).message, store)
        ELSE
    LET created == usersServiceCreate(store, [body EXCEPT !.email = body.email.v], id, salt)
        call == [fn |-> "create", data |-> created.row]
    IN  IF created.conflict
        THEN Threw("BadRequestException", Msg("Email already in use"), store,
                   <<call>>, created.hashCalls)
        ELSE Returned(withoutPassword(created.row), store \cup {created.row},
                      <<call>>, created.hashCalls, <<>>, {})

\* UsersController.create(body)
usersControllerCreate(store, body, id, salt) ==
    LET requiredFieldsValidation ==
            validateRequiredFields(<< <<"email", body.email>>, <<"password", body.password>> >>)
    IN  IF ~requiredFieldsValidation.isValid
        THEN BadRequest(requiredFieldsValidation.message, store)
        ELSE
    LET email == toLowerCase(trim(body.email.v))
        emailValidation == validateEmail(email)
    IN  IF ~emailValidation.isValid
        THEN BadRequest(emailValidation.message, store)
        ELSE
    LET passwordValidation == validatePasswordComplexity(body.password.v)
    IN  IF ~passwordValidation.isValid
        THEN BadRequest(passwordValidation.message, store)
        ELSE IF ~Falsy(body.role) /\ ~validateRole(body.role.v).isValid
        THEN BadRequest(validateRole(body.role.v).message, store)
        ELSE
    LET created == usersServiceCreate(store, [body EXCEPT !.email = email], id, salt)
        call == [fn |-> "create", data |-> created.row]
    IN  IF created.conflict
        THEN Threw("BadRequestException", Msg("Email already in use"), store,
                   <<call>>, created.hashCalls)
        ELSE Returned(withoutPassword(created.row), store \cup {created.row},
                      <<call>>, created.hashCalls, <<>>, {})

\* AuthController.login without the re-throw of the known exceptions
authControllerLoginNoRethrow(store, body, t) ==
    LET requiredFieldsValidation ==
            validateRequiredFields(<< <<"email", body.email>>, <<"password", body.password>> >>)
    IN  IF ~requiredFieldsValidation.isValid
        THEN BadRequest(requiredFieldsValidation.message, store)
        ELSE
    LET email == toLowerCase(trim(body.email.v))
        emailValidation == validateEmail(email)
    IN  IF ~emailValidation.isValid
        THEN BadRequest(emailValidation.message, store)
        ELSE
    LET result == authServiceLogin(store, email, body.password.v, t)
        call == [fn |-> "findUnique", where |-> [email |-> email]]
    IN  IF result.exception # ""
        THEN Threw("InternalServerErrorException",
                   Msg("Login failed. Please try again later"), store, <<call>>, <<>>)
        ELSE Returned(result.body[1], store, <<call>>, <<>>, result.signCalls, result.tokens)

\* AuthController.login(body) at clock t
authControllerLogin(store, body, t) ==
    LET requiredFieldsValidation ==
            validateRequiredFields(<< <<"email", body.email>>, <<"password", body.password>> >>)
    IN  IF ~requiredFieldsValidation.isValid
        THEN BadRequest(requiredFieldsValidation.message, store)
        ELSE
    LET email == toLowerCase(trim(body.email.v))
        emailValidation == validateEmail(email)
    IN  IF ~emailValidation.isValid
        THEN BadRequest(emailValidation.message, store)
        ELSE
    LET result == authServiceLogin(store, email, body.password.v, t)
        call == [fn |-> "findUnique", where |-> [email |-> email]]
    IN  IF result.exception # ""
        THEN Threw(result.exception, result.message, store, <<call>>, <<>>)
        ELSE Returned(result.body[1], store, <<call>>, <<>>, result.signCalls, result.tokens)

\* UsersController.findbyPage with the two numbers passed in the wrong order
usersControllerFindbyPageSwapped(store, page, limit) ==
    LET paginationValidation == validatePagination(page, limit)
    IN  IF ~paginationValidation.isValid
        THEN BadRequest(paginationValidation.message, store)
        ELSE LET r == usersServiceFindbyPage(store, Number(limit).whole, Number(page).whole)
             IN  Returned([data |-> r.data, pagination |-> r.pagination],
                          store, r.storeCalls, <<>>, <<>>, {})

\* UsersController.findbyPage(page, limit)
usersControllerFindbyPage(store, page, limit) ==
    LET paginationValidation == validatePagination(page, limit)
    IN  IF ~paginationValidation.isValid
        THEN BadRequest(paginationValidation.message, store)
        ELSE LET r == usersServiceFindbyPage(store, Number(page).whole, Number(limit).whole)
             IN  Returned([data |-> r.data, pagination |-> r.pagination],
                          store, r.storeCalls, <<>>, <<>>, {})

\* a not-found message that names no id (UserNotFoundException built without one)
UserNotFoundMessageGeneric(id) == <<"User", " not found">>

\* UserNotFoundException(userId): `User${userId ? ` with ID ${userId}` : ''} not found`.
\* A message alternates literal text (odd positions) and interpolated values
\* (even positions).
UserNotFoundMessage(id) ==
    IF id = <<>> THEN <<"User", " not found">>
    ELSE <<"User", <<" with ID ", id>>, " not found">>

\* UsersController.findOne(id).  The store refuses an id that is no integer; the
\* handler's catch turns that error into an InternalServerErrorException.
usersControllerFindOne(store, id) ==
    LET idValidation == validateId(id)
        userId == Number(id)
        call == [fn |-> "findUnique", where |-> [id |-> userId]]
    IN  IF ~idValidation.isValid
        THEN BadRequest(idValidation.message, store)
        ELSE IF ~NumberIsInteger(userId)
        THEN Threw("InternalServerErrorException", Msg("Failed to fetch user"),
                   store, <<call>>, <<>>)
        ELSE LET user == findOneById(store, userId.whole)
             IN  IF user = <<>>
                 THEN Threw("NotFoundException", UserNotFoundMessage(id), store, <<call>>, <<>>)
                 ELSE Returned(withoutPassword(user[1]), store, <<call>>, <<>>, <<>>, {})

\* UsersController.delete without the existence check before the delete
usersControllerDeleteNoCheck(store, id) ==
    LET idValidation == validateId(id)
        userId == Number(id)
        del == [fn |-> "delete", where |-> [id |-> userId]]
    IN  IF ~idValidation.isValid
        THEN BadRequest(idValidation.message, store)
        ELSE Returned([message |-> "User deleted successfully"],
                      {u \in store : u.id # userId.whole}, <<del>>, <<>>, <<>>, {})

\* UsersController.delete(id)
usersControllerDelete(store, id) ==
    LET idValidation == validateId(id)
        userId == Number(id)
        find == [fn |-> "findUnique", where |-> [id |-> userId]]
        del == [fn |-> "delete", where |-> [id |-> userId]]
    IN  IF ~idValidation.isValid
        THEN BadRequest(idValidation.message, store)
        ELSE IF ~NumberIsInteger(userId)
        THEN Threw("InternalServerErrorException", Msg("Failed to delete user"),
                   store, <<find>>, <<>>)
        ELSE LET user == findOneById(store, userId.whole)
             IN  IF user = <<>>
                 THEN Threw("NotFoundException", UserNotFoundMessage(id), store, <<find>>, <<>>)
                 ELSE Returned([message |-> "User deleted successfully"],
                               store \ {user[1]}, <<find, del>>, <<>>, <<>>, {})

(***************************************************************************)
(* Route dispatch: a route under @UseGuards(AuthGuard) runs its handler    *)
(* only when canActivate returned true; what the guard throws is the       *)
(* request's outcome.                                                      *)
(***************************************************************************)
\* UsersController.create built on userRegistrationSchema (the Zod handler)
usersControllerCreateZod(store, body, id, salt) ==
    LET issues == userRegistrationSchema(body)
    IN  IF issues # <<>>
        THEN BadRequest(issues[1], store)
        ELSE
    LET validatedData == [body EXCEPT !.email = emailSchemaOutput(body.email.v)]
        created == usersServiceCreate(store, validatedData, id, salt)
        call == [fn |-> "create", data |-> created.row]
    IN  IF created.conflict
        THEN Threw("BadRequestException", Msg("Email already in use"), store,
                   <<call>>, created.hashCalls)
        ELSE Returned(withoutPassword(created.row), store \cup {created.row},
                      <<call>>, created.hashCalls, <<>>, {})

Unguarded(op, request, t, outcome) ==
    [op |-> op, request |-> request, at |-> t, guard |-> "none",
     exception |-> outcome.exception, message |-> outcome.message, body |-> outcome.body,
     user |-> <<>>, verifyCalls |-> <<>>,
     storeCalls |-> outcome.storeCalls, hashCalls |-> outcome.hashCalls,
     signCalls |-> outcome.signCalls, store |-> outcome.store, tokens |-> outcome.tokens]

\* a route that lacks its @UseGuards(AuthGuard) decorator
UseGuardsMissing(op, request, t, outcome) == Unguarded(op, request, t, outcome)

UseGuards(op, request, t, outcome) ==
    LET g == canActivate(request, t)
    IN  IF g.activated
        THEN [op |-> op, request |-> request, at |-> t, guard |-> "Authenticated",
              exception |-> outcome.exception, message |-> outcome.message,
              body |-> outcome.body, user |-> g.user, verifyCalls |-> g.verifyCalls,
              storeCalls |-> outcome.storeCalls, hashCalls |-> outcome.hashCalls,
              signCalls |-> outcome.signCalls, store |-> outcome.store,
              tokens |-> outcome.tokens]
        ELSE [op |-> op, request |-> request, at |-> t, guard |-> "Rejected",
              exception |-> g.exception, message |-> g.message, body |-> <<>>,
              user |-> g.user, verifyCalls |-> g.verifyCalls,
              storeCalls |-> <<>>, hashCalls |-> <<>>, signCalls |-> <<>>,
              store |-> users, tokens |-> {}]

\* HttpExceptionFilter.catch: the error type of the response body
errorType(exception) ==
    CASE exception = "BadRequestException" -> "Bad Request"
      [] exception = "UnauthorizedException" -> "Unauthorized"
      [] exception = "NotFoundException" -> "Not Found"
      [] exception = "ConflictException" -> "Conflict"
      [] exception = "InternalServerErrorException" -> "Internal Server Error"
      [] OTHER -> "Error"

(***************************************************************************)
(* Inputs.                                                                 *)
(***************************************************************************)
\* exception.getStatus()
getStatus(exception) ==
    CASE exception = "BadRequestException" -> 400
      [] exception = "UnauthorizedException" -> 401
      [] exception = "NotFoundException" -> 404
      [] exception = "ConflictException" -> 409
      [] exception = "InternalServerErrorException" -> 500

\* the message HttpExceptionFilter falls back to when the exception has none
defaultMessage(exception) ==
    CASE exception = "BadRequestException" -> Msg("The request body contains invalid data")
      [] exception = "UnauthorizedException" -> Msg("Authentication is required")
      [] exception = "NotFoundException" -> Msg("Resource not found")
      [] exception = "ConflictException" -> Msg("Resource conflict")
      [] exception = "InternalServerErrorException" -> Msg("An internal server error occurred")

\* HttpExceptionFilter.catch: the JSON body sent to the caller
httpExceptionFilterCatch(exception, message) ==
    [statusCode |-> getStatus(exception),
     message |-> IF message = <<>> THEN defaultMessage(exception) ELSE message,
     error |-> errorType(exception)]

\* the exceptions that extend HttpException
isHttpException(exception) ==
    exception \in {"BadRequestException", "UnauthorizedException", "NotFoundException",
                   "ConflictException", "InternalServerErrorException"}

\* the catch block of a handler, for an error that is none of the exceptions it
\* re-throws: the error's message and stack go to the logger, and an
\* InternalServerErrorException with the handler's own text is thrown
handlerCatch(site, thrown) ==
    [exception |-> "InternalServerErrorException",
     message |-> CASE site = "create" -> Msg("Failed to create user")
                   [] site = "findbyPage" -> Msg("Failed to fetch users")
                   [] site = "findOne" -> Msg("Failed to fetch user")
                   [] site = "delete" -> Msg("Failed to delete user")
                   [] site = "login" -> Msg("Login failed. Please try again later"),
     logged |-> <<thrown.message, thrown.stack>>]

\* AllExceptionsFilter.catch: the JSON body sent to the caller, and what is logged
allExceptionsFilterCatch(thrown) ==
    [response |-> [statusCode |-> 500,
                   message |-> IF thrown.isError THEN thrown.message
                               ELSE Msg("Internal Server Error"),
                   error |-> "Internal Server Error"],
     logged |-> IF thrown.isError THEN <<thrown.message, thrown.stack>> ELSE <<thrown>>]

SevenDays == 604800
TickSteps == {1, SevenDays - 1}

DatabaseUrl == <<"p","g",":","/","/","d","b">>
ShortSecret == Chars("k", MinSecretLength - 1)
GoodSecret == Chars("k", MinSecretLength)
AttackerKey == Chars("z", MinSecretLength)

\* the environments the process can be started in
Envs ==
    {[DATABASE_URL |-> Str(DatabaseUrl), JWT_SECRET |-> sec, JWT_EXPIRES_IN |-> Undefined] :
        sec \in {Undefined, Str(ShortSecret), Str(GoodSecret)}}
    \cup {[DATABASE_URL |-> Str(DatabaseUrl), JWT_SECRET |-> Str(GoodSecret),
           JWT_EXPIRES_IN |-> Str(<<"2", "s">>)],
          [DATABASE_URL |-> Undefined, JWT_SECRET |-> Str(GoodSecret),
           JWT_EXPIRES_IN |-> Undefined]}

EmailA == <<"a","@","b",".","c">>
EmailSpelledA == <<" ","A","@","b",".","c">>
EmailD == <<"d","@","e",".","f">>
NoEmail == <<"a","b">>
GoodPassword == <<"P","a","s","s","w","0","r","d">>
WrongPassword == <<"W","r","o","n","g","p","w","1">>
WeakPassword == <<"p","w">>
Admin == <<"A","D","M","I","N">>

RegisterBody(email, password, role) ==
    [email |-> email, password |-> password, name |-> Undefined, role |-> role]

\* the bodies sent to POST /users/register
RegisterBodies ==
    {RegisterBody(Str(EmailSpelledA), Str(GoodPassword), Undefined),
     RegisterBody(Str(EmailA), Str(GoodPassword), Str(<<"a","d","m","i","n">>)),
     RegisterBody(Str(EmailA), Str(GoodPassword), Str(<<"b","o","s","s">>)),
     RegisterBody(Str(EmailA), Str(WeakPassword), Undefined),
     RegisterBody(Str(NoEmail), Str(GoodPassword), Undefined),
     RegisterBody(Undefined, Str(GoodPassword), Undefined)}

LoginBody(email, password) == [email |-> email, password |-> password]

\* the bodies sent to POST /auth/login
LoginBodies ==
    {LoginBody(Str(EmailA), Str(GoodPassword)),
     LoginBody(Str(EmailSpelledA), Str(GoodPassword)),
     LoginBody(Str(EmailA), Str(WrongPassword)),
     LoginBody(Str(EmailD), Str(GoodPassword)),
     LoginBody(Str(NoEmail), Str(GoodPassword)),
     LoginBody(Str(EmailA), Undefined)}

IdInputs == {<<"1">>, <<"2">>, <<"x">>, <<"1", ".", "5">>}
PageInputs == {Undefined, Str(<<"0">>)}
LimitInputs == {Undefined}

Garbage == [kind |-> "text", text |-> "garbage"]

\* what a client can make of a token it holds without knowing the secret
Tamperings(jwt) ==
    {[jwt EXCEPT !.payload.role = Admin],
     [jwt EXCEPT !.payload.exp = @ + SevenDays],
     [jwt EXCEPT !.header.alg = "none"],
     [jwt EXCEPT !.mac.key = AttackerKey]}

\* a token the client signs itself with a key of its own
Forged(t) == jwtSign([sub |-> 1, email |-> EmailA, role |-> Admin],
                     AttackerKey, DefaultExpiresIn, t)

\* the tokens clients hold
IssuedTokens == {i.token : i \in issued}

\* the token strings a client can send at clock t
ClientTokens(t) ==
    {<<jwt>> : jwt \in IssuedTokens \cup UNION {Tamperings(j) : j \in IssuedTokens}
                      \cup {Forged(t)}}
    \cup {<<Garbage>>}

\* the Authorization headers a client can send at clock t
AuthorizationInputs(t) ==
    {Undefined, Str(<<>>), Str(<<BearerPrefix>>)}
    \cup {Str(<<BearerPrefix>> \o tok) : tok \in ClientTokens(t)}
    \cup {Str(<<jwt>>) : jwt \in IssuedTokens}

\* what a collaborator (the store, the framework) can throw: an Error carrying
\* internal detail, or a value that is no Error
Thrown ==
    {[isError |-> TRUE, message |-> Msg("connect ECONNREFUSED 10.0.0.5:5432"),
      stack |-> Msg("at PrismaClient.connect")],
     [isError |-> FALSE, message |-> <<>>, stack |-> <<>>]}

\* where it is thrown: inside the try block of a handler, or outside every handler
FaultSites == {"create", "findbyPage", "findOne", "delete", "login", "outside"}

\* a request: its Authorization header and the handler's arguments
Request(authorization, input) ==
    [headers |-> [authorization |-> authorization], input |-> input]

(***************************************************************************)
(* The state machine.  Requests are handled one at a time: last holds the  *)
(* request being answered, and is cleared when the response is sent.       *)
(***************************************************************************)
Idle ==
    [op |-> "none", request |-> Request(Undefined, <<>>), at |-> 0, guard |-> "none",
     exception |-> "", message |-> <<>>, body |-> <<>>, user |-> <<>>,
     verifyCalls |-> <<>>, storeCalls |-> <<>>, hashCalls |-> <<>>, signCalls |-> <<>>,
     tokens |-> {}]

\* the requests that can be in flight together
RequestIds == 1..MaxInflight

\* a request slot with no request in it
IdleSlot ==
    [pc |-> "idle", authorization |-> Undefined, token |-> <<>>, outcome |-> "none",
     message |-> <<>>, user |-> <<>>, overlap |-> FALSE]

\* no validator or handler called on its own
NoInvocation == [fn |-> "none", args |-> <<>>, returned |-> FALSE, result |-> <<>>]

\* a request slot with no DELETE request in it
NoDelete == [pc |-> "idle", id |-> <<>>, outcome |-> "none", message |-> <<>>]

Init ==
    /\ phase = "boot"
    /\ config = [secret |-> <<>>, expiresIn |-> <<>>]
    /\ now = 0
    /\ ticks = 0
    /\ users = {}
    /\ nextId = 1
    /\ hashCount = 0
    /\ issued = {}
    /\ last = Idle
    /\ inflight = [r \in RequestIds |-> IdleSlot]
    /\ invocation = NoInvocation
    /\ deleting = [r \in RequestIds |-> NoDelete]

\* ConfigModule.forRoot({ validate }) and JwtModule.registerAsync
Bootstrap ==
    /\ phase = "boot"
    /\ \E e \in Envs :
        IF envSchemaOk(e)
        THEN /\ phase' = "running"
             /\ config' = useFactory(validate(e))
        ELSE /\ phase' = "failed"
             /\ UNCHANGED config
    /\ UNCHANGED <<now, ticks, users, nextId, hashCount, issued, last, inflight,
                 invocation, deleting>>

Ready == phase = "running" /\ last.op = "none"

\* the clock advances
Tick ==
    /\ Ready
    /\ ticks < MaxTicks
    /\ \E d \in TickSteps : now' = now + d
    /\ ticks' = ticks + 1
    /\ UNCHANGED <<phase, config, users, nextId, hashCount, issued, last, inflight,
                 invocation, deleting>>

\* what a request leaves behind: the outcome without the store
Trace(r) == [f \in DOMAIN r \ {"store"} |-> r[f]]

\* POST /users/register
Register ==
    /\ Ready
    /\ hashCount < MaxHashes
    /\ \E body \in RegisterBodies :
        LET r == Unguarded("register", Request(Undefined, body), now,
                           usersControllerCreate(users, body, nextId, hashCount + 1))
        IN  /\ last' = Trace(r)
            /\ users' = r.store
            /\ nextId' = IF r.store # users THEN nextId + 1 ELSE nextId
            /\ hashCount' = hashCount + Len(r.hashCalls)
    /\ UNCHANGED <<phase, config, now, ticks, issued, inflight,
                 invocation, deleting>>

\* POST /auth/login
Login ==
    /\ Ready
    /\ \E body \in LoginBodies :
        LET r == Unguarded("login", Request(Undefined, body), now,
                           authControllerLogin(users, body, now))
            new == {[token |-> jwt, claims |-> r.signCalls[1], issuedAt |-> now] :
                        jwt \in r.tokens}
        IN  /\ Cardinality(issued \cup new) <= MaxIssued
            /\ last' = Trace(r)
            /\ issued' = issued \cup new
    /\ UNCHANGED <<phase, config, now, ticks, users, nextId, hashCount, inflight,
                 invocation, deleting>>

\* @Query('page') page: string = '1'
DefaultString(x, d) == IF x.t = "undefined" THEN d ELSE x.v

\* GET /users
FindbyPage ==
    /\ Ready
    /\ \E authorization \in AuthorizationInputs(now), page \in PageInputs, limit \in LimitInputs :
        LET r == UseGuards("findbyPage", Request(authorization, <<page, limit>>), now,
                     usersControllerFindbyPage(users, DefaultString(page, <<"1">>),
                                               DefaultString(limit, <<"1","0">>)))
        IN  last' = Trace(r)
    /\ UNCHANGED <<phase, config, now, ticks, users, nextId, hashCount, issued, inflight,
                 invocation, deleting>>

\* GET /users/:id
FindOne ==
    /\ Ready
    /\ \E authorization \in AuthorizationInputs(now), id \in IdInputs :
        LET r == UseGuards("findOne", Request(authorization, id), now,
                           usersControllerFindOne(users, id))
        IN  last' = Trace(r)
    /\ UNCHANGED <<phase, config, now, ticks, users, nextId, hashCount, issued, inflight,
                 invocation, deleting>>

\* DELETE /users/:id
Delete ==
    /\ Ready
    /\ \E authorization \in AuthorizationInputs(now), id \in IdInputs :
        LET r == UseGuards("delete", Request(authorization, id), now,
                           usersControllerDelete(users, id))
        IN  /\ last' = Trace(r)
            /\ users' = r.store
    /\ UNCHANGED <<phase, config, now, ticks, nextId, hashCount, issued, inflight,
                 invocation, deleting>>

\* a call of AuthService.verifyToken(token)
VerifyToken ==
    /\ Ready
    /\ \E token \in ClientTokens(now) :
        LET v == authServiceVerifyToken(token, now)
        IN  last' = [Idle EXCEPT !.op = "verifyToken", !.request = Request(Undefined, token),
                                 !.at = now, !.exception = v.exception,
                                 !.message = v.message, !.body = v.body,
                                 !.verifyCalls = <<token>>]
    /\ UNCHANGED <<phase, config, now, ticks, users, nextId, hashCount, issued, inflight,
                 invocation, deleting>>

\* an unanticipated error is thrown while a request is served
Fault ==
    /\ Ready
    /\ \E site \in FaultSites, thrown \in Thrown :
        LET caught == IF site = "outside"
                      THEN [exception |-> "Error", message |-> thrown.message]
                      ELSE handlerCatch(site, thrown)
        IN  last' = [Idle EXCEPT !.op = "fault",
                                 !.request = Request(Undefined, [site |-> site, thrown |-> thrown]),
                                 !.at = now,
                                 !.exception = caught.exception,
                                 !.message = caught.message]
    /\ UNCHANGED <<phase, config, now, ticks, users, nextId, hashCount, issued, inflight,
                 invocation, deleting>>

\* the response is sent and the request's context is dropped
Respond ==
    /\ last.op # "none"
    /\ last' = Idle
    /\ UNCHANGED <<phase, config, now, ticks, users, nextId, hashCount, issued, inflight,
                 invocation, deleting>>

Next ==
    \/ Bootstrap
    \/ Tick
    \/ Register
    \/ Login
    \/ FindbyPage
    \/ FindOne
    \/ Delete
    \/ VerifyToken
    \/ Fault
    \/ Respond

Spec == Init /\ [][Next]_vars

(***************************************************************************)
(* Requests in flight together.  canActivate is an async function: it runs *)
(* from its call to its await without interruption, and resumes when       *)
(* verifyAsync has settled; in between, the guards of other requests run.  *)
(***************************************************************************)
\* a running process with two accounts, each holding a token of its own
SeedConfig ==
    useFactory(validate([DATABASE_URL |-> Str(DatabaseUrl), JWT_SECRET |-> Str(GoodSecret),
                         JWT_EXPIRES_IN |-> Undefined]))
SeedUsers ==
    {usersServiceCreate({}, RegisterBody(EmailA, Str(GoodPassword), Str(Admin)), 1, 1).row,
     usersServiceCreate({}, RegisterBody(EmailD, Str(GoodPassword), Undefined), 2, 2).row}
SeedIssued ==
    {[token |-> jwtSign([sub |-> u.id, email |-> u.email, role |-> u.role],
                        SeedConfig.secret, SeedConfig.expiresIn, 0),
      claims |-> [sub |-> u.id, email |-> u.email, role |-> u.role],
      issuedAt |-> 0] : u \in SeedUsers}

InitConcurrent ==
    /\ phase = "running"
    /\ config = SeedConfig
    /\ now = 0
    /\ ticks = 0
    /\ users = SeedUsers
    /\ nextId = 3
    /\ hashCount = 2
    /\ issued = SeedIssued
    /\ last = Idle
    /\ inflight = [r \in RequestIds |-> IdleSlot]
    /\ invocation = NoInvocation
    /\ deleting = [r \in RequestIds |-> NoDelete]

\* the Authorization headers of the requests in flight
ConcurrentAuthorizations ==
    {Undefined, Str(<<BearerPrefix>>), Str(<<BearerPrefix, Garbage>>)}
    \cup {Str(<<BearerPrefix, jwt>>) : jwt \in IssuedTokens}
    \cup {Str(<<BearerPrefix, [jwt EXCEPT !.payload.role = Admin]>>) : jwt \in IssuedTokens}

\* the token kept in a field of the guard, which every request shares: the one
\* another request left there while it is awaiting, if there is one
tokenToVerifyShared(slots, r) ==
    IF \E q \in RequestIds \ {r} : slots[q].pc = "verifying"
    THEN slots[CHOOSE q \in RequestIds \ {r} : slots[q].pc = "verifying"].token
    ELSE slots[r].token

\* verifyAsync(token): token is a const local to the call of canActivate
tokenToVerify(slots, r) == slots[r].token

\* canActivate from its call to its await: the header is read, the token is
\* extracted, and the call either throws or awaits verifyAsync
canActivateToAwait(authorization) ==
    IF Falsy(authorization)
    THEN [IdleSlot EXCEPT !.pc = "done", !.authorization = authorization,
                          !.outcome = "Rejected",
                          !.message = Msg("Authorization header is missing")]
    ELSE LET token == extractToken(authorization.v)
         IN  IF token = <<>>
             THEN [IdleSlot EXCEPT !.pc = "done", !.authorization = authorization,
                                   !.outcome = "Rejected",
                                   !.message = Msg("Token is missing")]
             ELSE [IdleSlot EXCEPT !.pc = "verifying", !.authorization = authorization,
                                   !.token = token]

\* canActivate after its await, at clock t: request.user = payload and true,
\* or the catch block's exception
canActivateFromAwait(slots, r, t) ==
    LET v == jwtVerify(tokenToVerify(slots, r), config.secret, t)
        beside == \E q \in RequestIds \ {r} : slots[q].pc = "verifying"
    IN  IF v.ok
        THEN [slots[r] EXCEPT !.pc = "done", !.outcome = "Authenticated",
                              !.user = <<v.payload>>, !.overlap = beside]
        ELSE [slots[r] EXCEPT !.pc = "done", !.outcome = "Rejected",
                              !.message = Msg("Invalid or expired token"),
                              !.overlap = beside]

\* a request reaches a guarded route and its guard runs to the await
GuardEnter ==
    /\ Ready
    /\ \E r \in RequestIds, authorization \in ConcurrentAuthorizations :
        /\ inflight[r].pc = "idle"
        /\ inflight' = [inflight EXCEPT ![r] = canActivateToAwait(authorization)]
    /\ UNCHANGED <<phase, config, now, ticks, users, nextId, hashCount, issued, last,
                 invocation, deleting>>

\* verifyAsync settles for one of the awaiting requests and its guard finishes
GuardResume ==
    /\ Ready
    /\ \E r \in RequestIds :
        /\ inflight[r].pc = "verifying"
        /\ inflight' = [inflight EXCEPT ![r] = canActivateFromAwait(inflight, r, now)]
    /\ UNCHANGED <<phase, config, now, ticks, users, nextId, hashCount, issued, last,
                 invocation, deleting>>

\* the request is answered and leaves
GuardLeave ==
    /\ Ready
    /\ \E r \in RequestIds :
        /\ inflight[r].pc = "done"
        /\ inflight' = [inflight EXCEPT ![r] = IdleSlot]
    /\ UNCHANGED <<phase, config, now, ticks, users, nextId, hashCount, issued, last,
                 invocation, deleting>>

NextConcurrent ==
    \/ Tick
    \/ GuardEnter
    \/ GuardResume
    \/ GuardLeave

SpecConcurrent == InitConcurrent /\ [][NextConcurrent]_vars

(***************************************************************************)
(* The validators and handlers called on their own: a call is drawn with   *)
(* its arguments, and the function is applied to them.                     *)
(***************************************************************************)
Invoke(fn, args) == [fn |-> fn, args |-> args, returned |-> FALSE, result |-> <<>>]

\* the outcome of both implementations of a validator
Both(hand, zod) == [hand |-> hand, zod |-> zod]

PasswordInputs ==
    {<<"P", "a", "s", "s", "w", "o", "r", "d", "1">>,
     <<"M", "y", "P", "@", "s", "s", "w", "0", "r", "d">>,
     <<"T", "e", "s", "t", "1", "2", "3", "4">>,
     <<"A", "b", "c", "d", "e", "f", "g", "1">>,
     <<"P", "a", "s", "s", "1">>,
     <<"p", "a", "s", "s", "w", "o", "r", "d", "1">>,
     <<"P", "A", "S", "S", "W", "O", "R", "D", "1">>,
     <<"P", "a", "s", "s", "w", "o", "r", "d">>,
     <<"p", "a", "s", "s", "w", "o", "r", "d">>,
     <<"P", "A", "S", "S", "W", "O", "R", "D">>,
     <<"1", "2", "3", "4", "5", "6", "7", "8">>,
     <<>>,
     <<"A", "a", "1">>,
     <<"A", "a", "1", "A", "a", "1", "A", "a", "1", "A", "a", "1", "A", "a", "1", "A", "a", "1", "A", "a", "1", "A", "a", "1", "A", "a", "1", "A", "a", "1", "A", "a", "1", "A", "a", "1", "A", "a", "1", "A", "a", "1">>,
     <<"P", "a", "s", "s", "w", "0", "r", "d">>,
     <<"a", "b", "c", "d", "e", "f", "g", "h", "1">>,
     <<"A", "B", "C", "D", "E", "F", "G", "H">>,
     <<"p", "a", "s", "s", " ", "w", "o", "r", "d", " ", "A", "1">>,
     <<"P", "4", "s", "s", "w", "o", "r", "d", "!", "#", "%", "&">>}

PageArguments ==
    {<<"1">>,
     <<"5">>,
     <<"1", "0", "0">>,
     <<"0">>,
     <<"-", "1">>,
     <<"a", "b", "c">>,
     <<>>,
     <<"3", ".", "5">>,
     <<"2", ".", "9", "9">>,
     <<" ", "2", " ">>,
     <<"1", ".", "0">>,
     <<"+", "3">>}
LimitArguments ==
    {<<"1", "0">>,
     <<"5", "0">>,
     <<"1", "0", "0", "0">>,
     <<"1">>,
     <<"0">>,
     <<"-", "5">>,
     <<"1", "0", "0", "1">>,
     <<"x", "y", "z">>,
     <<>>,
     <<"1", "0", ".", "5">>,
     <<"5", "0", ".", "9", "9">>,
     <<"9", "9", "9">>,
     <<"1", "0", "0", "0", ".", "5">>,
     <<"2", "0", "0", "0">>}

\* a User table of n rows
TableOf(n) ==
    {[id |-> i, email |-> <<"u", DigitSeq[i + 1], "@", "b", ".", "c">>, name |-> Undefined,
      password |-> bcryptHash(GoodPassword, SaltRounds, i), role |-> DefaultRole] : i \in 1..n}

\* the page and limit query parameters of GET /users: absent, or a string
PageQueries == {Undefined} \cup {Str(<<d>>) : d \in {"0", "1", "2", "3"}}
LimitQueries ==
    {Undefined} \cup {Str(<<d>>) : d \in {"1", "2", "3"}}
    \cup {Str(<<"1", "0">>), Str(<<"1", "0", "0", "0">>), Str(<<"1", "0", "0", "1">>)}

\* values a field of the mapping can hold
Number0 == [t |-> "number", v |-> 0]
Number5 == [t |-> "number", v |-> 5]
False == [t |-> "boolean", v |-> FALSE]
True == [t |-> "boolean", v |-> TRUE]
TextValues == {Undefined, Null, Str(<<>>), Str(<<"x">>)}
FieldValues == TextValues \cup {Number0, Number5, False, True}

\* the mappings passed to validateRequiredFields, as entries in insertion order
FieldMappings ==
    {<< <<"count", v>> >> : v \in FieldValues}
    \cup {<< <<"email", v>>, <<"password", w>> >> : v \in FieldValues, w \in FieldValues}
    \cup {<< <<"password", v>>, <<"email", w>> >> : v \in TextValues, w \in TextValues}
    \cup {<< <<"email", v>>, <<"password", w>>, <<"name", x>> >> :
              v \in TextValues, w \in TextValues, x \in TextValues}

IdArguments ==
    {<<"1">>,
     <<"4", "2">>,
     <<"9", "9", "9">>,
     <<"1", "2", "3", "4", "5">>,
     <<"a", "b", "c">>,
     <<>>,
     <<"u", "s", "e", "r", "1", "2", "3">>,
     <<"-", "5">>,
     <<"0">>,
     <<"1", ".", "5">>,
     <<"2", ".", "0">>,
     <<" ", "7", " ">>,
     <<"-", "1", ".", "5">>,
     <<"0", ".", "5">>,
     <<"+", "4">>,
     <<"1", ".">>,
     <<".", "5">>,
     <<"1", "2", "a">>}

\* the role field of a registration body: absent, or a string
RoleFields ==
    {Undefined} \cup {Str(r) : r \in
    {<<"A", "D", "M", "I", "N">>,
     <<"a", "d", "m", "i", "n">>,
     <<"S", "t", "u", "d", "e", "n", "t">>,
     <<"T", "E", "A", "C", "H", "E", "R">>,
     <<"s", "t", "a", "f", "f">>,
     <<"G", "u", "e", "s", "t">>,
     <<"U", "S", "E", "R">>,
     <<"M", "O", "D", "E", "R", "A", "T", "O", "R">>,
     <<"S", "U", "P", "E", "R", "A", "D", "M", "I", "N">>,
     <<>>,
     <<"A", "d", "M", "i", "N">>,
     <<"S", "T", "U", "D", "E", "N", "T", "S">>,
     <<" ", "a", "d", "m", "i", "n">>}}
\* registration bodies that differ in their role only
RoleBodies == {RegisterBody(Str(EmailA), Str(GoodPassword), role) : role \in RoleFields}

\* the email field of a registration or login body
EmailFields ==
    {<<"U", "S", "E", "R", "@", "E", "x", "a", "m", "p", "l", "e", ".", "c", "o", "m">>,
     <<"u", "s", "e", "r", "@", "e", "x", "a", "m", "p", "l", "e", ".", "c", "o", "m">>,
     <<" ", "U", "s", "e", "r", "@", "E", "x", "a", "m", "p", "l", "e", ".", "c", "o", "m", " ">>,
     <<"n", "o", "t", "a", "n", "e", "m", "a", "i", "l">>,
     <<"@", "e", "x", "a", "m", "p", "l", "e", ".", "c", "o", "m">>,
     <<"u", "s", "e", "r", "@">>,
     <<"u", "s", "e", "r", " ", "@", "e", "x", "a", "m", "p", "l", "e", ".", "c", "o", "m">>,
     <<"u", "s", "e", "r", "@", ".", "c", "o", "m">>,
     <<"a", "@", "b", ".", "c">>,
     <<"u", "s", "e", "r", "+", "t", "a", "g", "@", "e", "x", "a", "m", "p", "l", "e", ".", "c", "o", "m">>,
     <<"o", "t", "h", "e", "r", "@", "e", "x", "a", "m", "p", "l", "e", ".", "c", "o", "m">>,
     <<" ", " ", " ">>}

\* the emails validateEmail is called with: those above, the other emails of
\* its tests, and the empty string
EmailArguments ==
    EmailFields \cup
    {<<"t", "e", "s", "t", ".", "u", "s", "e", "r", "@", "d", "o", "m", "a", "i", "n", ".", "c", "o", ".", "u", "k">>,
     <<"u", "s", "e", "r", "1", "2", "3", "@", "t", "e", "s", "t", "-", "d", "o", "m", "a", "i", "n", ".", "c", "o", "m">>,
     <<>>}
\* the roles validateRole is called with
RoleArguments == {role.v : role \in RoleFields \ {Undefined}}

Invocations ==
    {Invoke("validatePasswordComplexity", <<p>>) : p \in PasswordInputs}
    \cup {Invoke("validatePagination", <<page, limit>>) :
              page \in PageArguments, limit \in LimitArguments}
    \cup {Invoke("validateRequiredFields", <<fields>>) : fields \in FieldMappings}
    \cup {Invoke("validateId", <<id>>) : id \in IdArguments}
    \cup {Invoke("validateEmail", <<email>>) : email \in EmailArguments}
    \cup {Invoke("validateRole", <<role>>) : role \in RoleArguments}
    \cup {Invoke("register", <<body>>) : body \in RoleBodies}
    \cup {Invoke("registerBoth", <<body>>) : body \in RoleBodies}
    \cup {Invoke("registerThenLogin", <<registered, presented>>) :
              registered \in EmailFields, presented \in EmailFields}
    \cup {Invoke("findbyPage", <<page, limit, total>>) :
              page \in PageQueries, limit \in LimitQueries, total \in 0..MaxTotal}

InitCalls ==
    /\ phase = "running"
    /\ config = SeedConfig
    /\ now = 0
    /\ ticks = 0
    /\ users = {}
    /\ nextId = 1
    /\ hashCount = 0
    /\ issued = {}
    /\ last = Idle
    /\ inflight = [r \in RequestIds |-> IdleSlot]
    /\ invocation \in Invocations
    /\ deleting = [r \in RequestIds |-> NoDelete]

\* what a call leaves unchanged: everything but the call itself
CallFrame ==
    UNCHANGED <<phase, config, now, ticks, users, nextId, hashCount, issued, last, inflight,
                deleting>>

Called(fn) == invocation.fn = fn /\ ~invocation.returned
Return(result) == invocation' = [invocation EXCEPT !.returned = TRUE, !.result = result]

ValidatePasswordComplexity ==
    /\ Called("validatePasswordComplexity")
    /\ Return(Both(validatePasswordComplexity(invocation.args[1]),
                   validatePasswordComplexityZod(invocation.args[1])))
    /\ CallFrame

ValidatePagination ==
    /\ Called("validatePagination")
    /\ Return(Both(validatePagination(invocation.args[1], invocation.args[2]),
                   validatePaginationZod(invocation.args[1], invocation.args[2])))
    /\ CallFrame

ValidateRequiredFields ==
    /\ Called("validateRequiredFields")
    /\ Return(Both(validateRequiredFields(invocation.args[1]),
                   validateRequiredFieldsZod(invocation.args[1])))
    /\ CallFrame

ValidateId ==
    /\ Called("validateId")
    /\ Return(Both(validateId(invocation.args[1]), validateIdZod(invocation.args[1])))
    /\ CallFrame

ValidateEmail ==
    /\ Called("validateEmail")
    /\ Return(Both(validateEmail(invocation.args[1]), validateEmailZod(invocation.args[1])))
    /\ CallFrame

ValidateRole ==
    /\ Called("validateRole")
    /\ Return(Both(validateRole(invocation.args[1]), validateRoleZod(invocation.args[1])))
    /\ CallFrame

\* POST /users/register served on an empty table by each of the two handlers
RegisterBoth ==
    /\ Called("registerBoth")
    /\ Return(Both(usersControllerCreate({}, invocation.args[1], 1, 1),
                   usersControllerCreateZod({}, invocation.args[1], 1, 1)))
    /\ CallFrame

\* POST /users/register served on an empty table
RegisterUser ==
    /\ Called("register")
    /\ Return(usersControllerCreate({}, invocation.args[1], 1, 1))
    /\ CallFrame

\* POST /users/register with the first email on an empty table, then
\* POST /auth/login with the second email and the same password
RegisterThenLogin ==
    /\ Called("registerThenLogin")
    /\ LET body == RegisterBody(Str(invocation.args[1]), Str(GoodPassword), Undefined)
           created == usersControllerCreate({}, body, 1, 1)
       IN  Return([created |-> created,
                   createdZod |-> usersControllerCreateZod({}, body, 1, 1),
                   login |-> authControllerLogin(created.store,
                                 LoginBody(Str(invocation.args[2]), Str(GoodPassword)), now)])
    /\ CallFrame

\* GET /users served for a table of invocation.args[3] rows
ListUsers ==
    /\ Called("findbyPage")
    /\ Return(usersControllerFindbyPage(TableOf(invocation.args[3]),
                                        DefaultString(invocation.args[1], <<"1">>),
                                        DefaultString(invocation.args[2], <<"1","0">>)))
    /\ CallFrame

NextCalls ==
    \/ ValidatePasswordComplexity
    \/ ValidatePagination
    \/ ValidateRequiredFields
    \/ ValidateId
    \/ ValidateEmail
    \/ ValidateRole
    \/ RegisterUser
    \/ RegisterBoth
    \/ RegisterThenLogin
    \/ ListUsers

SpecCalls == InitCalls /\ [][NextCalls]_vars

(***************************************************************************)
(* Properties.                                                             *)
(***************************************************************************)
ProtectedOps == {"findbyPage", "findOne", "delete"}
Protected == last.op \in ProtectedOps
AuthHeader == last.request.headers.authorization
\* the token string the request carries, if it carries one
Carried == IF AuthHeader.t = "string" THEN extractToken(AuthHeader.v) ELSE <<>>
Unauthorized(text) ==
    /\ last.exception = "UnauthorizedException"
    /\ errorType(last.exception) = "Unauthorized"
    /\ last.message = Msg(text)
    /\ last.body = <<>>

\* C1: the guard returns true exactly when verifyAsync succeeded on the token
\* extracted from the request's Authorization header, and request.user is then
\* exactly the payload verifyAsync returned.
C1_AuthenticatedIffVerified ==
    Protected =>
        /\ last.guard = "Authenticated" <=>
              /\ last.verifyCalls = <<Carried>>
              /\ Carried # <<>>
              /\ jwtVerify(Carried, config.secret, last.at).ok
        /\ last.guard = "Authenticated" =>
              last.user = <<jwtVerify(Carried, config.secret, last.at).payload>>
        /\ last.guard # "Authenticated" => last.user = <<>>

C1_Witness ==
    /\ last.op = "findOne"
    /\ last.guard = "Authenticated"
    /\ last.user # <<>>
    /\ last.user[1].email = EmailA

\* the request carries a token that login issued and that has not reached its exp
CarriesLiveIssuedToken ==
    \E jwt \in IssuedTokens : Carried = <<jwt>> /\ last.at < jwt.payload.exp

\* C2: a request to the listing, lookup or delete path that carries no valid
\* token ends in Unauthorized, and makes no store call and changes no row;
\* register and login run without the guard.
C2_ProtectedOnlyAfterApproval ==
    [][/\ (last'.op \in ProtectedOps /\ ~CarriesLiveIssuedToken')
            => /\ last'.exception = "UnauthorizedException"
               /\ errorType(last'.exception) = "Unauthorized"
               /\ last'.storeCalls = <<>>
               /\ users' = users
       /\ (last'.op \in ProtectedOps /\ last'.storeCalls # <<>>)
            => last'.guard = "Authenticated"
       /\ last'.op \in {"register", "login"}
            => last'.guard = "none" /\ last'.verifyCalls = <<>>]_vars

C2_Witness ==
    /\ last.op = "delete"
    /\ last.guard = "Rejected"
    /\ last.request.input = <<"1">>
    /\ \E u \in users : u.id = 1
    /\ Carried # <<>>


\* the configured time to live, in seconds
TtlSeconds == IF config.expiresIn = DefaultExpiresIn THEN SevenDays ELSE 2
ExpiryOf(i) == i.issuedAt + TtlSeconds
SameClaims(payload, claims) ==
    /\ payload.sub = claims.sub
    /\ payload.email = claims.email
    /\ payload.role = claims.role

\* C3 (as amended): with a secret of at least 32 characters, verifying an issued
\* token returns the subject, email and role it was signed for at every instant
\* before issuedAt + ttl, and a rejection at every instant from issuedAt + ttl on.
C3_RoundTripUntilExpiry ==
    /\ phase = "running" => Len(config.secret) >= MinSecretLength
    /\ \A i \in issued :
        LET r == jwtVerify(<<i.token>>, config.secret, now)
        IN  /\ now < ExpiryOf(i) => r.ok /\ SameClaims(r.payload, i.claims)
            /\ now >= ExpiryOf(i) => ~r.ok
            /\ (last.op = "verifyToken" /\ last.request.input = <<i.token>>)
                  => IF last.at < ExpiryOf(i)
                     THEN last.exception = "" /\ SameClaims(last.body[1], i.claims)
                     ELSE last.exception = "UnauthorizedException"

\* C3 as stated: the token is still accepted at its expiry instant and rejected
\* only strictly after it.
C3_AcceptedAtExpiryInstant ==
    \A i \in issued :
        LET r == jwtVerify(<<i.token>>, config.secret, now)
        IN  /\ now <= ExpiryOf(i) => r.ok /\ SameClaims(r.payload, i.claims)
            /\ now > ExpiryOf(i) => ~r.ok

C3_Witness ==
    \E i \in issued :
        /\ last.op = "verifyToken"
        /\ last.request.input = <<i.token>>
        /\ last.at = ExpiryOf(i)
        /\ last.exception = "UnauthorizedException"
        /\ TtlSeconds = SevenDays

\* C4: the guard keeps nothing between requests: every protected request that
\* carries a token calls verifyAsync once, on that token, and a request carrying
\* an issued token is Authenticated when made before the token's expiry and
\* Rejected when made from its expiry on, whatever was answered before.
C4_FreshVerificationPerRequest ==
    Protected =>
        /\ Carried # <<>> => last.verifyCalls = <<Carried>>
        /\ \A i \in issued :
              Carried = <<i.token>> =>
                  /\ last.at < ExpiryOf(i) => last.guard = "Authenticated"
                  /\ last.at >= ExpiryOf(i) => last.guard = "Rejected"

C4_Witness ==
    \E i \in issued :
        /\ Protected
        /\ Carried = <<i.token>>
        /\ last.at > i.issuedAt
        /\ last.at >= ExpiryOf(i)
        /\ last.guard = "Rejected"

\* C5: a protected request without an Authorization header is rejected with
\* 'Authorization header is missing', and verifyAsync is not called.
C5_MissingHeaderRejected ==
    (Protected /\ AuthHeader.t = "undefined") =>
        /\ last.guard = "Rejected"
        /\ Unauthorized("Authorization header is missing")
        /\ last.verifyCalls = <<>>

C5_Witness ==
    /\ last.op = "findbyPage"
    /\ AuthHeader.t = "undefined"
    /\ last.guard = "Rejected"

\* the header value with the optional 'Bearer ' prefix stripped
Stripped(h) == IF h # <<>> /\ h[1] = BearerPrefix THEN Tail(h) ELSE h

\* C6 (as amended): a non-empty Authorization header whose value is empty after
\* the optional 'Bearer ' prefix is stripped is rejected with 'Token is missing'
\* without a call of verifyAsync; an empty header value is rejected with
\* 'Authorization header is missing'; for every non-empty stripped value
\* verifyAsync is called with exactly that value.
C6_EmptyTokenRejected ==
    (Protected /\ AuthHeader.t = "string") =>
        /\ (AuthHeader.v # <<>> /\ Stripped(AuthHeader.v) = <<>>)
              => /\ Unauthorized("Token is missing")
                 /\ last.verifyCalls = <<>>
        /\ AuthHeader.v = <<>>
              => /\ Unauthorized("Authorization header is missing")
                 /\ last.verifyCalls = <<>>
        /\ Stripped(AuthHeader.v) # <<>>
              => last.verifyCalls = <<Stripped(AuthHeader.v)>>

\* C6 as stated: whenever the header is present and the stripped value is empty
\* the message is 'Token is missing'.
C6_PresentHeaderEmptyToken ==
    (Protected /\ AuthHeader.t = "string" /\ Stripped(AuthHeader.v) = <<>>) =>
        /\ Unauthorized("Token is missing")
        /\ last.verifyCalls = <<>>

C6_Witness ==
    /\ Protected
    /\ AuthHeader = Str(<<BearerPrefix>>)
    /\ last.message = Msg("Token is missing")

\* the request's token was handed to verify, and verify refused it
VerificationFailed ==
    /\ last.op \in ProtectedOps \cup {"verifyToken"}
    /\ Len(last.verifyCalls) = 1
    /\ ~jwtVerify(last.verifyCalls[1], config.secret, last.at).ok
VerificationError == jwtVerify(last.verifyCalls[1], config.secret, last.at).error

\* C7: whatever made verification fail (a malformed token, a changed header
\* or payload, a signature under another key, expiry), the guard and
\* AuthService.verifyToken answer with the same Unauthorized 'Invalid or expired
\* token' and nothing else.
C7_FailuresIndistinguishable ==
    VerificationFailed =>
        /\ Unauthorized("Invalid or expired token")
        /\ last.user = <<>>
        /\ last.storeCalls = <<>>

C7_Witness ==
    /\ Protected
    /\ VerificationFailed
    /\ VerificationError = "jwt expired"

\* the request carries a token string that is no JWT
CarriesMalformedToken == Carried # <<>> /\ (Len(Carried) # 1 \/ Carried[1].kind # "jwt")
MissingMessages == {Msg("Authorization header is missing"), Msg("Token is missing")}

\* C8 (as amended): an absent or empty header and an empty token are reported
\* with a 'missing' message, which differs from 'Invalid or expired token'; a
\* malformed token is reported as 'Invalid or expired token', like a signature
\* or expiry failure.
C8_MissingVersusInvalid ==
    Protected =>
        /\ (AuthHeader.t = "undefined" \/ Carried = <<>>)
              => /\ last.guard = "Rejected"
                 /\ last.message \in MissingMessages
                 /\ last.message # Msg("Invalid or expired token")
        /\ CarriesMalformedToken
              => /\ last.guard = "Rejected"
                 /\ last.message = Msg("Invalid or expired token")
        /\ (last.guard = "Rejected" /\ Carried # <<>>)
              => last.message \notin MissingMessages

\* C8 as stated: a malformed token is reported with the 'missing' kind.
C8_MalformedReportedMissing ==
    (Protected /\ CarriesMalformedToken) => last.message \in MissingMessages

C8_Witness ==
    /\ Protected
    /\ Carried = <<Garbage>>
    /\ last.message = Msg("Invalid or expired token")

\* the row whose credentials the login request presented
Authenticates(u) ==
    /\ last.request.input.email.t = "string"
    /\ last.request.input.password.t = "string"
    /\ u.email = toLowerCase(trim(last.request.input.email.v))
    /\ bcryptCompare(last.request.input.password.v, u.password)

\* C9: every token minted at login carries the id, email and role of the row
\* that credential validation returned for that login: sign is called once
\* with exactly {sub: row.id, email: row.email, role: row.role}.
C9_ClaimsFromAuthenticatedRecord ==
    (last.op = "login" /\ (last.signCalls # <<>> \/ last.tokens # {})) =>
        \E u \in users :
            /\ Authenticates(u)
            /\ last.signCalls = <<[sub |-> u.id, email |-> u.email, role |-> u.role]>>
            /\ \A jwt \in last.tokens :
                  SameClaims(jwt.payload, [sub |-> u.id, email |-> u.email, role |-> u.role])
            /\ Cardinality(last.tokens) = 1
            /\ last.body[1].access_token \in last.tokens

C9_Witness ==
    /\ last.op = "login"
    /\ last.request.input.email = Str(EmailSpelledA)
    /\ last.signCalls # <<>>
    /\ last.signCalls[1].email = EmailA
    /\ last.signCalls[1].role = Admin

\* the login request is well-formed: the handler's validation lets it through
WellFormedLogin ==
    /\ last.request.input.email.t = "string"
    /\ last.request.input.password.t = "string"
    /\ last.request.input.password.v # <<>>
    /\ emailRegexTest(toLowerCase(trim(last.request.input.email.v)))

\* C10: a login whose credentials match no row fails with Unauthorized 'Invalid
\* email or password' and signs no token, and the outcome is the same for an
\* unknown email as for a wrong password.
C10_BadCredentialsRejected ==
    (last.op = "login" /\ WellFormedLogin /\ ~\E u \in users : Authenticates(u)) =>
        /\ Unauthorized("Invalid email or password")
        /\ last.signCalls = <<>>
        /\ last.tokens = {}

C10_Witness ==
    /\ last.op = "login"
    /\ WellFormedLogin
    /\ \E u \in users : u.email = toLowerCase(trim(last.request.input.email.v))
    /\ ~\E u \in users : Authenticates(u)
    /\ last.exception = "UnauthorizedException"


\* the plaintext passwords that registration requests submit
SubmittedPasswords ==
    {b.password.v : b \in {x \in RegisterBodies : x.password.t = "string"}}

\* C11: a registration that reaches the store made exactly one bcrypt.hash call,
\* on the submitted plaintext with cost 10, and hands the store that call's
\* output; a login hashes nothing and creates nothing; every stored password is
\* a cost-10 hash of a submitted plaintext, never the plaintext and never the
\* hash of a hash.
C11_StoredPasswordHashedOnce ==
    /\ (last.op = "register" /\ last.storeCalls # <<>>) =>
          /\ Len(last.hashCalls) = 1
          /\ last.hashCalls[1] = <<last.request.input.password.v, SaltRounds>>
          /\ Len(last.storeCalls) = 1
          /\ last.storeCalls[1].fn = "create"
          /\ last.storeCalls[1].data.password =
                bcryptHash(last.request.input.password.v, SaltRounds,
                           last.storeCalls[1].data.password.salt)
    /\ (last.op = "register" /\ last.storeCalls = <<>>) => last.hashCalls = <<>>
    /\ last.op = "login" =>
          /\ last.hashCalls = <<>>
          /\ \A i \in DOMAIN last.storeCalls : last.storeCalls[i].fn = "findUnique"
    /\ \A u \in users :
          /\ u.password.rounds = SaltRounds
          /\ \E plain \in SubmittedPasswords :
                u.password = bcryptHash(plain, SaltRounds, u.password.salt)

C11_Witness ==
    /\ last.op = "register"
    /\ last.exception = ""
    /\ last.hashCalls = << <<GoodPassword, SaltRounds>> >>
    /\ \E u \in users : u.id = 2 /\ bcryptCompare(GoodPassword, u.password)


HasNoPassword(r) == "password" \notin DOMAIN r

\* C12: whatever register, lookup by id, listing and login return has no
\* password field, neither at the top level nor in a listed row nor in the
\* login response's user; and what validateUser returns for a stored row has
\* none.
C12_NoPasswordInResponses ==
    /\ (last.body # <<>> /\ last.op \in {"register", "findOne"}) =>
          HasNoPassword(last.body[1])
    /\ (last.body # <<>> /\ last.op = "findbyPage") =>
          \A i \in DOMAIN last.body[1].data : HasNoPassword(last.body[1].data[i])
    /\ (last.body # <<>> /\ last.op = "login") =>
          /\ HasNoPassword(last.body[1])
          /\ HasNoPassword(last.body[1].user)
    /\ \A u \in users, plain \in SubmittedPasswords :
          LET v == validateUser(users, u.email, plain)
          IN  v # <<>> => HasNoPassword(v[1])

C12_Witness ==
    /\ last.op = "findOne"
    /\ last.body # <<>>
    /\ last.body[1].email = EmailA
    /\ \E u \in users : u.id = last.body[1].id /\ "password" \in DOMAIN u
    /\ validateUser(users, EmailA, GoodPassword) # <<>>


\* the request reached its handler: the route has no guard, or the guard let it in
ReachedHandler == last.guard \in {"none", "Authenticated"}
RegisterInputInvalid ==
    LET body == last.request.input
    IN  \/ ~validateRequiredFields(<< <<"email", body.email>>,
                                      <<"password", body.password>> >>).isValid
        \/ ~validateEmail(toLowerCase(trim(body.email.v))).isValid
        \/ ~validatePasswordComplexity(body.password.v).isValid
        \/ (~Falsy(body.role) /\ ~validateRole(body.role.v).isValid)
LoginInputInvalid ==
    LET body == last.request.input
    IN  \/ ~validateRequiredFields(<< <<"email", body.email>>,
                                      <<"password", body.password>> >>).isValid
        \/ ~validateEmail(toLowerCase(trim(body.email.v))).isValid
PaginationInputInvalid ==
    ~validatePagination(DefaultString(last.request.input[1], <<"1">>),
                        DefaultString(last.request.input[2], <<"1","0">>)).isValid
\* the request's input breaks a validation rule: a required field, the email
\* shape, the password complexity, the role, the pagination, or the identifier
\* rule (a positive integer)
InputFailsValidation ==
    \/ last.op = "register" /\ RegisterInputInvalid
    \/ last.op = "login" /\ LoginInputInvalid
    \/ last.op = "findbyPage" /\ PaginationInputInvalid
    \/ last.op \in {"findOne", "delete"} /\ ~idSchemaOk(last.request.input)
EndsInValidationFailure ==
    /\ last.exception = "BadRequestException"
    /\ errorType(last.exception) = "Bad Request"
    /\ last.storeCalls = <<>>
    /\ last.hashCalls = <<>>
FractionalId ==
    /\ last.op \in {"findOne", "delete"}
    /\ validateId(last.request.input).isValid
    /\ ~idSchemaOk(last.request.input)

\* C13 as stated: a request whose input breaks a validation rule ends in a bad
\* request without a store call and without a hash call.
C13_ValidatedBeforePersistence ==
    (ReachedHandler /\ InputFailsValidation) => EndsInValidationFailure

\* C13, what holds: the same for every input except an id with a fractional
\* part, which validateId lets through to the store.
C13_ValidatedExceptFractionalId ==
    (ReachedHandler /\ InputFailsValidation /\ ~FractionalId) => EndsInValidationFailure

C13_Witness ==
    /\ last.op = "findOne"
    /\ last.guard = "Authenticated"
    /\ last.request.input = <<"1", ".", "5">>
    /\ last.storeCalls # <<>>
    /\ last.exception # "BadRequestException"


\* C14: an authenticated lookup or delete of a positive integer id that no row
\* has fails with NotFound, leaves the table as it is and issues no delete; when
\* a row has the id, lookup returns that row (without its password) and delete
\* issues one delete for it, removes it and returns the confirmation.
C14_NotFoundWhenAbsent ==
    [][(/\ last'.op \in {"findOne", "delete"}
        /\ last'.guard = "Authenticated"
        /\ idSchemaOk(last'.request.input))
       => LET id == Number(last'.request.input)
              row == findOneById(users, id.whole)
              deletes == {i \in DOMAIN last'.storeCalls : last'.storeCalls[i].fn = "delete"}
          IN  IF row = <<>>
              THEN /\ last'.exception = "NotFoundException"
                   /\ errorType(last'.exception) = "Not Found"
                   /\ last'.body = <<>>
                   /\ deletes = {}
                   /\ users' = users
              ELSE IF last'.op = "findOne"
              THEN /\ last'.exception = ""
                   /\ last'.body = <<withoutPassword(row[1])>>
                   /\ deletes = {}
                   /\ users' = users
              ELSE /\ last'.exception = ""
                   /\ last'.body = <<[message |-> "User deleted successfully"]>>
                   /\ Cardinality(deletes) = 1
                   /\ \A i \in deletes : last'.storeCalls[i].where.id = id
                   /\ users' = users \ {row[1]}
                   /\ ~\E u \in users' : u.id = id.whole]_vars

C14_Witness ==
    /\ last.op = "delete"
    /\ last.guard = "Authenticated"
    /\ last.request.input = <<"1">>
    /\ last.exception = "NotFoundException"
    /\ users = {}
    /\ nextId = 2


\* the body of the error response the caller receives
ErrorResponse ==
    IF isHttpException(last.exception)
    THEN httpExceptionFilterCatch(last.exception, last.message)
    ELSE allExceptionsFilterCatch(last.request.input.thrown).response
\* the values interpolated into a message
Interpolated(message) == {message[i] : i \in {j \in DOMAIN message : j % 2 = 0}}
IdOf(request) == request.input

FaultSite == last.request.input.site
Underlying == last.request.input.thrown
GenericMessages ==
    {Msg("Failed to create user"), Msg("Failed to fetch users"), Msg("Failed to fetch user"),
     Msg("Failed to delete user"), Msg("Login failed. Please try again later"),
     Msg("Internal Server Error")}

\* C16 as stated: every failure of no known kind is answered with status 500 and
\* a generic message, and the underlying error's message is not in the response.
C16_UnknownFailuresGeneric ==
    last.op = "fault" =>
        /\ ErrorResponse.statusCode = 500
        /\ ErrorResponse.error = "Internal Server Error"
        /\ ErrorResponse.message \in GenericMessages
        /\ Underlying.isError => ErrorResponse.message # Underlying.message

\* C16, what holds: an error caught by a handler's catch block is answered with
\* 500 and the handler's fixed message, and its own message goes to the logger.
C16_HandlerFailuresGeneric ==
    (last.op = "fault" /\ FaultSite # "outside") =>
        /\ ErrorResponse.statusCode = 500
        /\ ErrorResponse.error = "Internal Server Error"
        /\ ErrorResponse.message \in GenericMessages
        /\ Underlying.isError => ErrorResponse.message # Underlying.message
        /\ handlerCatch(FaultSite, Underlying).logged[1] = Underlying.message

C16_Witness ==
    /\ last.op = "fault"
    /\ FaultSite = "outside"
    /\ Underlying.isError
    /\ ErrorResponse.statusCode = 500
    /\ ErrorResponse.message = Underlying.message


\* the email a register request asks for, as the handler normalises it
RequestedEmail == toLowerCase(trim(last.request.input.email.v))
\* a registration whose create call the store refused
RefusedRegistration ==
    /\ last.op = "register"
    /\ last.storeCalls # <<>>
    /\ last.exception # ""

HasLongSecret(e) == e.JWT_SECRET.t = "string" /\ Len(e.JWT_SECRET.v) >= MinSecretLength

\* C18: the process reaches "running" only from an environment whose JWT_SECRET
\* has at least 32 characters, and then signs and verifies with exactly that
\* secret and with the configured time to live, 7 days when none is configured;
\* an environment with a shorter or missing secret fails validation; after the
\* start neither the secret nor the time to live, nor the outcome of the start,
\* changes.
C18_SecretFixedAtStart ==
    [][/\ \A e \in Envs : ~HasLongSecret(e) => ~envSchemaOk(e)
       /\ (phase = "boot" /\ phase' = "running") =>
             \E e \in Envs :
                 /\ HasLongSecret(e)
                 /\ config'.secret = e.JWT_SECRET.v
                 /\ config'.expiresIn = IF e.JWT_EXPIRES_IN.t = "undefined"
                                        THEN DefaultExpiresIn ELSE e.JWT_EXPIRES_IN.v
       /\ phase' = "running" =>
             /\ Len(config'.secret) >= MinSecretLength
             /\ config'.expiresIn = DefaultExpiresIn => timespan(config'.expiresIn) = SevenDays
       /\ phase # "boot" => (phase' = phase /\ config' = config)
       /\ phase' # "running" => (last' = Idle /\ users' = {} /\ issued' = {})]_vars

C18_Witness ==
    /\ phase = "running"
    /\ Len(config.secret) = MinSecretLength
    /\ config.expiresIn = DefaultExpiresIn
    /\ now >= SevenDays
    /\ \E i \in issued : i.token.mac.key = config.secret /\ i.token.payload.exp = SevenDays

\* C19: guard evaluations of requests in flight together do not interfere.
\* Whenever a request's guard finishes, in whatever order the guards of the
\* requests were interleaved, its outcome, its message and the claims attached
\* to it are those canActivate gives for its own Authorization header at that
\* moment, and the step changes nothing of any other request.
C19_GuardRequestsIndependent ==
    [][\A r \in RequestIds :
          (inflight[r].pc # "done" /\ inflight'[r].pc = "done") =>
              LET own == canActivate(Request(inflight'[r].authorization, <<>>), now)
              IN  /\ inflight'[r].outcome =
                         (IF own.activated THEN "Authenticated" ELSE "Rejected")
                  /\ inflight'[r].message = own.message
                  /\ inflight'[r].user = own.user
                  /\ \A q \in RequestIds \ {r} : inflight'[q] = inflight[q]]_vars

\* one request was authenticated with its own account's claims while another
\* request, carrying the other account's token, was awaiting its verification
C19_Witness ==
    /\ inflight[1].pc = "done"
    /\ inflight[1].outcome = "Authenticated"
    /\ inflight[1].overlap
    /\ inflight[1].user[1].email = EmailA
    /\ inflight[2].pc = "verifying"
    /\ inflight[2].token[1].kind = "jwt"
    /\ inflight[2].token[1].payload.email = EmailD
    /\ inflight[2].token[1] \in IssuedTokens


\* the roles of the enumeration
Roles == {validRoles[i] : i \in DOMAIN validRoles}

\* a token whose signature was made over the claims it carries
SignedOverOwnClaims(jwt) == jwt.mac.header = jwt.header /\ jwt.mac.payload = jwt.payload

\* the same token for another role: the same signer, the same other claims
WithRole(jwt, role) ==
    LET claims == [jwt.payload EXCEPT !.role = role]
    IN  [jwt EXCEPT !.payload = claims, !.mac = Hmac(jwt.mac.key, jwt.header, claims)]

\* the Authorization header h with its token replaced
WithToken(h, jwt) == [h EXCEPT ![Len(h)] = jwt]

\* the handler of a protected route, run on the store with the request's input
ProtectedHandler(op, store, input) ==
    CASE op = "findbyPage" ->
             usersControllerFindbyPage(store, DefaultString(input[1], <<"1">>),
                                       DefaultString(input[2], <<"1","0">>))
      [] op = "findOne" -> usersControllerFindOne(store, input)
      [] op = "delete" -> usersControllerDelete(store, input)

\* C20: the guard's decision does not depend on the role claim.  For every
\* protected request that carries a token signed over its own claims, the same
\* request made with the token of any other role of the enumeration (same
\* signer, same other claims) gets the same guard decision, runs the same
\* handler calls and receives the same response, and leaves the same store.
C20_GuardIgnoresRole ==
    [][(/\ last.op = "none"
        /\ Protected'
        /\ Len(Carried') = 1
        /\ Carried'[1].kind = "jwt"
        /\ SignedOverOwnClaims(Carried'[1])) =>
           \A role \in Roles :
              LET twin == UseGuards(last'.op,
                              Request(Str(WithToken(AuthHeader'.v, WithRole(Carried'[1], role))),
                                      last'.request.input),
                              last'.at,
                              ProtectedHandler(last'.op, users, last'.request.input))
              IN  /\ twin.guard = last'.guard
                  /\ twin.exception = last'.exception
                  /\ twin.message = last'.message
                  /\ twin.body = last'.body
                  /\ twin.storeCalls = last'.storeCalls
                  /\ twin.store = users']_vars

\* a request carrying a GUEST account's token was authenticated and deleted a user
C20_Witness ==
    /\ last.op = "delete"
    /\ last.guard = "Authenticated"
    /\ last.user[1].role = DefaultRole
    /\ last.exception = ""
    /\ last.storeCalls # <<>>


\* a call of fn that has returned
HasReturned(fn) == invocation.fn = fn /\ invocation.returned

\* the four steps of the password check, in their order
PasswordStepPasses(k, password) ==
    CASE k = 1 -> Len(password) >= 8
      [] k = 2 -> \E i \in DOMAIN password : password[i] \in UpperChars
      [] k = 3 -> \E i \in DOMAIN password : password[i] \in LowerChars
      [] k = 4 -> \E i \in DOMAIN password : password[i] \in DigitChars
PasswordStepMessage(k) ==
    CASE k = 1 -> "Password must be at least 8 characters long"
      [] k = 2 -> "Password must contain at least one uppercase letter"
      [] k = 3 -> "Password must contain at least one lowercase letter"
      [] k = 4 -> "Password must contain at least one number"
PasswordFailingSteps(password) == {k \in 1..4 : ~PasswordStepPasses(k, password)}
Least(S) == CHOOSE k \in S : \A j \in S : k <= j

\* the one outcome the four steps determine
PasswordOutcome(password) ==
    IF PasswordFailingSteps(password) = {}
    THEN Valid
    ELSE Invalid(Msg(PasswordStepMessage(Least(PasswordFailingSteps(password)))))

\* C21: validatePasswordComplexity returns valid, without a message, exactly
\* when the password has at least 8 characters, an upper-case letter, a
\* lower-case letter and a digit, and otherwise the message of the first step
\* that fails in that order; nothing else (a maximum length, a special
\* character) enters the outcome.  Both implementations are checked.
C21_PasswordFirstFailingStep ==
    HasReturned("validatePasswordComplexity") =>
        /\ invocation.result.hand = PasswordOutcome(invocation.args[1])
        /\ invocation.result.zod = PasswordOutcome(invocation.args[1])

\* a password with no digit and no upper-case letter was answered with the
\* upper-case message
C21_Witness ==
    /\ HasReturned("validatePasswordComplexity")
    /\ Cardinality(PasswordFailingSteps(invocation.args[1])) >= 2
    /\ Len(invocation.args[1]) >= 8
    /\ invocation.result.hand.message =
           Msg("Password must contain at least one uppercase letter")


\* a JavaScript number that is an integer within [lo, hi]
IntegerWithin(x, lo, hi) ==
    /\ ~x.nan
    /\ ~x.frac
    /\ ~x.neg
    /\ lo <= x.whole
    /\ x.whole <= hi
\* a JavaScript number that is an integer of at least 1
PositiveInteger(x) == ~x.nan /\ ~x.frac /\ ~x.neg /\ x.whole >= 1

\* the outcome the claim gives for a page and a limit
PaginationOutcome(page, limit) ==
    IF ~PositiveInteger(Number(page))
    THEN Invalid(Msg("Page must be a positive integer"))
    ELSE IF ~IntegerWithin(Number(limit), 1, 1000)
    THEN Invalid(Msg("Limit must be an integer between 1 and 1000"))
    ELSE Valid

\* C22: validatePagination checks the page first.  A page that does not coerce
\* to a positive integer gives 'Page must be a positive integer' whatever the
\* limit is; otherwise a limit that does not coerce to an integer of 1 to 1000
\* gives 'Limit must be an integer between 1 and 1000'; otherwise the result
\* is valid, with the limits 1 and 1000 accepted.  Both implementations are
\* checked.
C22_PageCheckedFirst ==
    HasReturned("validatePagination") =>
        /\ invocation.result.hand = PaginationOutcome(invocation.args[1], invocation.args[2])
        /\ invocation.result.zod = PaginationOutcome(invocation.args[1], invocation.args[2])

\* a bad page with a bad limit was answered with the page's message
C22_Witness ==
    /\ HasReturned("validatePagination")
    /\ invocation.args = << <<"3", ".", "5">>, <<"1", "0", "0", "1">> >>
    /\ invocation.result.hand = Invalid(Msg("Page must be a positive integer"))
    /\ invocation.result.zod = Invalid(Msg("Page must be a positive integer"))


\* the number a query parameter stands for, or the default when it is absent
QueryValue(x, default) == IF x.t = "undefined" THEN default ELSE Number(x.v).whole
\* whether the query parameter, when given, is an integer within [lo, hi]
QueryWithin(x, lo, hi) == x.t = "undefined" \/ IntegerWithin(Number(x.v), lo, hi)
\* ceil(total / limit): the least number of pages of limit rows that hold total rows
PagesFor(total, limit) == Least({k \in 0..total : k * limit >= total})

\* C23: for every valid page and limit (absent ones standing for 1 and 10) and
\* every table size, the listing asks the store for skip = (page - 1) * limit
\* and take = limit, counts the rows, and returns pagination {page, limit,
\* total, pages} with pages = ceil(total / limit).
C23_ListingSkipTakePages ==
    (/\ HasReturned("findbyPage")
     /\ QueryWithin(invocation.args[1], 1, 3)
     /\ QueryWithin(invocation.args[2], 1, 1000)) =>
        LET page == QueryValue(invocation.args[1], 1)
            limit == QueryValue(invocation.args[2], 10)
            total == invocation.args[3]
        IN  /\ invocation.result.exception = ""
            /\ invocation.result.storeCalls =
                   << [fn |-> "findMany", skip |-> (page - 1) * limit, take |-> limit],
                      [fn |-> "count"] >>
            /\ invocation.result.body[1].pagination =
                   [page |-> page, limit |-> limit, total |-> total,
                    pages |-> PagesFor(total, limit)]

\* page 2 of 2 rows each, out of 5 rows: skip 2, take 2, 3 pages, 2 rows returned
C23_Witness ==
    /\ HasReturned("findbyPage")
    /\ invocation.args = <<Str(<<"2">>), Str(<<"2">>), 5>>
    /\ invocation.result.storeCalls[1].skip = 2
    /\ invocation.result.body[1].pagination.pages = 3
    /\ Len(invocation.result.body[1].data) = 2


\* undefined, null or the empty string
IsMissing(x) == x.t \in {"undefined", "null"} \/ (x.t = "string" /\ x.v = <<>>)
\* the names of the fields that hold one of these, in the mapping's order
MissingNames(fields) ==
    LET missing == SelectSeq(fields, LAMBDA e : IsMissing(e[2]))
    IN  [i \in DOMAIN missing |-> missing[i][1]]

\* C24: validateRequiredFields treats a field as missing exactly when its value
\* is undefined, null or the empty string: the result is invalid if and only
\* if some field holds one of the three, so 0 and false are not missing.
\* Both implementations are checked.
C24_MissingIsUndefinedNullEmpty ==
    HasReturned("validateRequiredFields") =>
        /\ ~invocation.result.hand.isValid <=> MissingNames(invocation.args[1]) # <<>>
        /\ ~invocation.result.zod.isValid <=> MissingNames(invocation.args[1]) # <<>>

\* the schema-built validator alone treats exactly the three values as missing
C24_ZodMissingIsUndefinedNullEmpty ==
    HasReturned("validateRequiredFields") =>
        (~invocation.result.zod.isValid <=> MissingNames(invocation.args[1]) # <<>>)

\* the mapping {count: 0} was found invalid by the hand-written validator and
\* valid by the schema-built one
C24_Witness ==
    /\ HasReturned("validateRequiredFields")
    /\ invocation.args[1] = << <<"count", Number0>> >>
    /\ ~invocation.result.hand.isValid
    /\ invocation.result.zod.isValid


\* the message the claim gives for the missing names: the names joined with
\* ' and ', then 'is required' for one name and 'are required' for more
RequiredMessage(names) ==
    [i \in 1..(2 * Len(names) - 1) |-> IF i % 2 = 1 THEN names[(i + 1) \div 2] ELSE " and "]
    \o <<" ", IF Len(names) = 1 THEN "is" ELSE "are", " required">>

\* the outcome the claim gives for a mapping
RequiredOutcome(fields) ==
    IF MissingNames(fields) = <<>> THEN Valid
    ELSE Invalid(RequiredMessage(MissingNames(fields)))

\* C25: validateRequiredFields names every missing field in its one message,
\* in the mapping's order: 'X is required' for one missing field, the names
\* joined with ' and ' followed by 'are required' for two or more.  Both
\* implementations are checked.
C25_EveryMissingFieldNamed ==
    HasReturned("validateRequiredFields") =>
        /\ invocation.result.hand = RequiredOutcome(invocation.args[1])
        /\ invocation.result.zod = RequiredOutcome(invocation.args[1])

\* the hand-written validator names every missing field when the mapping holds
\* only strings, undefined and null
C25_HandWrittenNamesEveryMissingField ==
    (/\ HasReturned("validateRequiredFields")
     /\ \A i \in DOMAIN invocation.args[1] : invocation.args[1][i][2] \in TextValues) =>
        invocation.result.hand = RequiredOutcome(invocation.args[1])

\* {email: '', password: null}: the hand-written validator answers 'email and
\* password are required', the schema-built one 'email is required'
C25_Witness ==
    /\ HasReturned("validateRequiredFields")
    /\ invocation.args[1] = << <<"email", Str(<<>>)>>, <<"password", Null>> >>
    /\ invocation.result.hand.message = <<"email", " and ", "password", " ", "are", " required">>
    /\ invocation.result.zod.message = <<"email", " ", "is", " required">>


\* the outcome the claim gives for an id string
IdOutcome(id) ==
    IF PositiveInteger(Number(id)) THEN Valid ELSE Invalid(Msg("Invalid user ID format"))

\* C26: validateId accepts an id string if and only if it coerces to a positive
\* integer, and every rejection carries exactly 'Invalid user ID format'.
\* Both implementations are checked.
C26_IdIffPositiveInteger ==
    HasReturned("validateId") =>
        /\ invocation.result.hand = IdOutcome(invocation.args[1])
        /\ invocation.result.zod = IdOutcome(invocation.args[1])

\* what holds of the hand-written validator: it rejects an id that is no number
\* or is below 1, always with 'Invalid user ID format', and accepts the rest
C26_HandWrittenRejectsBelowOne ==
    HasReturned("validateId") =>
        LET n == Number(invocation.args[1])
        IN  invocation.result.hand =
                (IF n.nan \/ n.neg \/ n.whole < 1
                 THEN Invalid(Msg("Invalid user ID format")) ELSE Valid)

\* what holds of the schema-built validator: it accepts exactly the positive
\* integers
C26_ZodAcceptsPositiveIntegers ==
    HasReturned("validateId") =>
        (invocation.result.zod.isValid <=> PositiveInteger(Number(invocation.args[1])))

\* '1.5' was accepted by the hand-written validator and refused by the
\* schema-built one with a message of its own
C26_Witness ==
    /\ HasReturned("validateId")
    /\ invocation.args[1] = <<"1", ".", "5">>
    /\ invocation.result.hand.isValid
    /\ invocation.result.zod = Invalid(Msg("ID must be an integer"))


\* the role given in the body of the registration that was served
RoleGiven == invocation.args[1].role
\* the registration was refused as an invalid role, before any store call
RefusedAsInvalidRole ==
    /\ invocation.result.exception = "BadRequestException"
    /\ invocation.result.message =
           Msg("Invalid role. Must be one of: ADMIN, STUDENT, TEACHER, STAFF, GUEST")
    /\ invocation.result.storeCalls = <<>>
\* the registration was accepted and the row handed to the store has this role
StoredWithRole(role) ==
    /\ invocation.result.exception = ""
    /\ Len(invocation.result.storeCalls) = 1
    /\ invocation.result.storeCalls[1].data.role = role
    /\ invocation.result.body[1].role = role

Normalised(email) == toLowerCase(trim(email))
\* local-part '@' domain-with-dot: no white space, one '@' with text before it,
\* and after it text, a dot and text
HasEmailShape(s) ==
    \E i, j \in DOMAIN s :
        /\ 1 < i /\ i + 1 < j /\ j < Len(s)
        /\ s[i] = "@" /\ s[j] = "."
        /\ \A k \in DOMAIN s : s[k] # " " /\ (s[k] = "@" => k = i)
\* the handler outcome r is an accepted registration that stored this email
StoredWithEmail(r, email) ==
    /\ r.exception = ""
    /\ Len(r.storeCalls) = 1
    /\ r.storeCalls[1].data.email = email
    /\ r.body[1].email = email
    /\ \A u \in r.store : u.email = email
\* the handler outcome r is a refusal for the email's format, before any store call
RefusedAsInvalidEmail(r) ==
    /\ r.exception = "BadRequestException"
    /\ r.message = Msg("Invalid email format")
    /\ r.storeCalls = <<>>

DeleteIds ==
    {<<"1">>,
     <<"2">>,
     <<"9">>,
     <<"a", "b", "c">>,
     <<"1", ".", "5">>}
\* the hand-written controller and the Zod one
DeleteControllers == {"hand", "zod"}

\* how a request ended
DeleteDone(id, outcome, message) ==
    [pc |-> "done", id |-> id, outcome |-> outcome, message |-> message]

\* delete(id) up to `await this.usersService.findOneById(userId)`:
\* validateId(id) in the hand-written controller, idSchema.parse(id) in the Zod one
deleteToFind(controller, id) ==
    LET idValidation == IF controller = "zod" THEN FirstIssue(idSchema(id))
                        ELSE validateId(id)
    IN  IF ~idValidation.isValid
        THEN DeleteDone(id, "BadRequestException", idValidation.message)
        ELSE [pc |-> "find", id |-> id, outcome |-> "none", message |-> <<>>]

\* findOneById settles on the table as it is now; the handler goes on to
\* `await this.usersService.delete(userId)` or throws UserNotFoundException(id).
\* The store refuses an id that is no integer: the catch answers with 500.
deleteFromFind(store, d) ==
    LET userId == Number(d.id)
    IN  IF ~NumberIsInteger(userId)
        THEN DeleteDone(d.id, "InternalServerErrorException", Msg("Failed to delete user"))
        ELSE IF findOneById(store, userId.whole) = <<>>
        THEN DeleteDone(d.id, "NotFoundException", UserNotFoundMessage(d.id))
        ELSE [d EXCEPT !.pc = "delete"]

\* UsersService.delete(id): prisma.user.delete({ where: { id } }) removes the
\* row, and rejects when no row has this id
usersServiceDelete(store, id) ==
    IF findOneById(store, id) = <<>>
    THEN [rejected |-> TRUE, store |-> store]
    ELSE [rejected |-> FALSE, store |-> store \ {findOneById(store, id)[1]}]

\* usersService.delete settles: the handler returns the confirmation, or its
\* catch turns the store's rejection into InternalServerErrorException
deleteFromDelete(deleted, d) ==
    IF deleted.rejected
    THEN DeleteDone(d.id, "InternalServerErrorException", Msg("Failed to delete user"))
    ELSE DeleteDone(d.id, "", Msg("User deleted successfully"))

InitDelete ==
    /\ phase = "running"
    /\ config = SeedConfig
    /\ now = 0
    /\ ticks = 0
    /\ users = SeedUsers
    /\ nextId = 3
    /\ hashCount = 2
    /\ issued = SeedIssued
    /\ last = Idle
    /\ inflight = [r \in RequestIds |-> IdleSlot]
    /\ invocation = NoInvocation
    /\ deleting = [r \in RequestIds |-> NoDelete]

\* a DELETE /users/:id request arrives and runs up to its first await
DeleteEnter ==
    /\ \E r \in RequestIds, controller \in DeleteControllers, id \in DeleteIds :
        /\ deleting[r].pc = "idle"
        /\ deleting' = [deleting EXCEPT ![r] = deleteToFind(controller, id)]
    /\ UNCHANGED <<phase, config, now, ticks, users, nextId, hashCount, issued, last,
                 inflight, invocation>>

\* findOneById settles for one of the requests
DeleteFind ==
    /\ \E r \in RequestIds :
        /\ deleting[r].pc = "find"
        /\ deleting' = [deleting EXCEPT ![r] = deleteFromFind(users, deleting[r])]
    /\ UNCHANGED <<phase, config, now, ticks, users, nextId, hashCount, issued, last,
                 inflight, invocation>>

\* usersService.delete settles for one of the requests
DeleteApply ==
    /\ \E r \in RequestIds :
        /\ deleting[r].pc = "delete"
        /\ LET deleted == usersServiceDelete(users, Number(deleting[r].id).whole)
           IN  /\ users' = deleted.store
               /\ deleting' = [deleting EXCEPT ![r] = deleteFromDelete(deleted, deleting[r])]
    /\ UNCHANGED <<phase, config, now, ticks, nextId, hashCount, issued, last,
                 inflight, invocation>>

NextDelete ==
    \/ DeleteEnter
    \/ DeleteFind
    \/ DeleteApply

SpecDelete == InitDelete /\ [][NextDelete]_vars

\* the requests that have ended and were for this id
DeleteEnded(id) ==
    {r \in RequestIds : deleting[r].pc = "done" /\ Number(deleting[r].id) = Number(id)}
\* the ids of the rows the table starts with
ExistingIds == {id \in DeleteIds : \E u \in SeedUsers : Number(id) = Num(FALSE, u.id, FALSE)}

\* C29: when two delete requests for the same existing id have been in flight,
\* exactly one of them returned the confirmation and every other one failed
\* with NotFound; none ended in InternalServerError.
C29_OneConfirmationOthersNotFound ==
    \A id \in ExistingIds :
        Cardinality(DeleteEnded(id)) >= 2 =>
            /\ Cardinality({r \in DeleteEnded(id) : deleting[r].outcome = ""}) = 1
            /\ \A r \in DeleteEnded(id) :
                   deleting[r].outcome \in {"", "NotFoundException"}

\* the store's delete is applied to a record at most once: of the requests
\* for one id, at most one was answered by a removal
C29_DeleteAppliedAtMostOnce ==
    \A id \in ExistingIds :
        Cardinality({r \in DeleteEnded(id) : deleting[r].outcome = ""}) <= 1

\* one step at a time, the second request for a deleted id fails with NotFound
C29_AfterDeleteNotFound ==
    [][\A r \in RequestIds :
          (/\ deleting[r].pc = "find"
           /\ deleting'[r].pc = "done"
           /\ NumberIsInteger(Number(deleting[r].id))
           /\ ~\E u \in users : Num(FALSE, u.id, FALSE) = Number(deleting[r].id))
          => deleting'[r].outcome = "NotFoundException"]_vars

\* two requests for id 1 ended, one of them in InternalServerError
C29_Witness ==
    \E r, q \in RequestIds :
        /\ r # q
        /\ deleting[r] = DeleteDone(<<"1">>, "", Msg("User deleted successfully"))
        /\ deleting[q] = DeleteDone(<<"1">>, "InternalServerErrorException",
                                    Msg("Failed to delete user"))


\* the six validators
ValidatorNames ==
    {"validateEmail", "validatePasswordComplexity", "validateRole", "validateId",
     "validatePagination", "validateRequiredFields"}
\* two handler outcomes accept alike and, when they accept, make the same store calls
SameRegistration(hand, zod) ==
    /\ (hand.exception = "") <=> (zod.exception = "")
    /\ (hand.exception = "" /\ zod.exception = "") => hand.storeCalls = zod.storeCalls

\* C30: for every input the hand-written validator and its Zod replacement
\* return the same validity and the same message, and the two registration
\* handlers accept the same bodies and pass the same fields to the store.
C30_ValidatorsInterchangeable ==
    /\ \A fn \in ValidatorNames :
           HasReturned(fn) => invocation.result.hand = invocation.result.zod
    /\ HasReturned("registerBoth") =>
           SameRegistration(invocation.result.hand, invocation.result.zod)
    /\ HasReturned("registerThenLogin") =>
           SameRegistration(invocation.result.created, invocation.result.createdZod)

\* the validators that do agree on every input: password, role and pagination
C30_PasswordRolePaginationAgree ==
    \A fn \in {"validatePasswordComplexity", "validateRole", "validatePagination"} :
        HasReturned(fn) => invocation.result.hand = invocation.result.zod

\* whatever the Zod registration handler accepts, the hand-written one accepts
\* too, with the same store call
C30_ZodHandlerAcceptsLess ==
    /\ HasReturned("registerBoth") =>
           (invocation.result.zod.exception = "" =>
                /\ invocation.result.hand.exception = ""
                /\ invocation.result.hand.storeCalls = invocation.result.zod.storeCalls)
    /\ HasReturned("registerThenLogin") =>
           (invocation.result.createdZod.exception = "" =>
                /\ invocation.result.created.exception = ""
                /\ invocation.result.created.storeCalls
                       = invocation.result.createdZod.storeCalls)

\* role 'admin': the hand-written handler stored the user, the Zod one refused
C30_Witness ==
    /\ HasReturned("registerBoth")
    /\ invocation.args[1].role = Str(<<"a", "d", "m", "i", "n">>)
    /\ invocation.result.hand.exception = ""
    /\ invocation.result.zod.exception = "BadRequestException"

====
